---- MODULE Spec2Model ----
(***************************************************************************)
(* A model of the goscript execution engine (vm/src/vm.rs): the fiber      *)
(* main loop, call frames, closures and upvalues, deferred calls, panic    *)
(* and recover, and the single-threaded cooperative executor.              *)
(*                                                                         *)
(* The interpreter is modelled instruction by instruction.  The bytecode   *)
(* it runs is a fixed table of small functions (FuncVal); the state after  *)
(* construction picks one entry function and one padding length.           *)
(***************************************************************************)
EXTENDS Integers, Sequences, FiniteSets, TLC

\* ------------------------------------------------------------------------
\* Bounds of the model
MaxFibers == 3
\* lengths of the no-op prefix of the padding function F_PAD
PadNone == 0
PadPanic == 989      \* F_E_PANIC raises its panic in the last iteration of a quantum
PadRecover == 1000   \* F_E_REC's quantum ends between its PANIC and its RECOVER
PadChoices == {PadNone, PadPanic, PadRecover}
\* the producer/consumer program: number of values sent, channel capacity
ProdN == 100
\* ObjSpec: how many slices are made, and the largest capacity of a new one
MaxSlices == 3
MaxCap == 4
\* ObjSpec: the families of objects a run works on
ObjKinds == {"slice", "str", "key", "cmp", "oob", "copy", "named", "bind", "pack",
             "backing", "consts"}
\* the most constants added to one Consts
MaxConsts == 3
\* the longest vector that MAKE, LITERAL or an array gives to the slices
\* whose backing vectors are followed
MaxBack == 2
\* variadic calls: the most values the caller has on its stack below the call,
\* the most results and parameters (the variadic one included) of a
\* signature, and the most arguments passed for the variadic parameter
MaxBase == 1
MaxResults == 2
MaxParams == 3
MaxVariadic == 2
\* the types of the aggregates of a run of stores: outermost first, each an
\* array or a struct with one element of the next type, the last of int
Shapes == {<< "array" >>, << "struct" >>, << "array", "struct" >>, << "struct", "array" >>,
           << "array", "array" >>, << "struct", "struct" >>}
\* ObjSpec: how many key values are made, the numbers in them and the
\* values stored in the map
MaxKeys == 3
Nums == {1, 2}
MapVals == {42}
\* the text of the string field of a struct literal: "x"
X == << 120 >>
\* ObjSpec: how many strings are made, and the texts of the new ones (bytes)
MaxStrs == 3
Texts == {<< 97, 98, 99, 100 >>, << 97, 97 >>}
ChanCap == 8

\* ------------------------------------------------------------------------
\* Program constants
yield_unit == 1024

\* ------------------------------------------------------------------------
\* Values (GosValue): a tag and a number.  "cls" and "ptr" carry the id of
\* a closure object / of an upvalue cell (PointerObj::UpVal), "chan" the id
\* of a channel, "str" the code of a runtime message.
Val(t, n) == [t |-> t, n |-> n]
NilV == Val("nil", 0)
IntV(n) == Val("int", n)
ClsV(c) == Val("cls", c)
PtrV(u) == Val("ptr", u)
ChanV(c) == Val("chan", c)
StrV(s) == Val("str", s)

\* runtime messages
MSG_SEND_CLOSED == 1
MSG_FFI_ERROR == 2

Range(s) == {s[i] : i \in DOMAIN s}
Last(s) == s[Len(s)]
Front(s) == SubSeq(s, 1, Len(s) - 1)
\* the last n elements of s / s without them
TopN(s, n) == SubSeq(s, Len(s) - n + 1, Len(s))
DropN(s, n) == SubSeq(s, 1, Len(s) - n)
Zeros(n) == [i \in 1..n |-> NilV]

\* ------------------------------------------------------------------------
\* Instructions: opcode, type flags t0, t1, t2 (t2 as an index), immediate,
\* and the rhs index of the store instructions (imm824).
Ins(op, t0, imm, rhs) ==
    [op |-> op, t0 |-> t0, t1 |-> "Void", t2 |-> 0, imm |-> imm, rhs |-> rhs]
I0(op) == Ins(op, "Void", 0, 0)
I1(op, imm) == Ins(op, "Void", imm, 0)

\* ValueDesc as found in FunctionVal.up_ptrs
Desc(func, index, is_up_value) ==
    [func |-> func, index |-> index, is_up_value |-> is_up_value]

\* FunctionVal: code, up_ptrs, and the counts that stand for ret_zeros,
\* stack_temp_types (params then locals) and local_zeros.
Fn(code, up_ptrs, rets, params, locals) ==
    [code |-> code, up_ptrs |-> up_ptrs, ret_count |-> rets,
     param_count |-> params, local_count |-> locals]

\* function keys
F_E_CLS == 1    \* entry: closures and upvalues
F_MK == 2       \* makes two closures over its local x, returns the second
F_INC == 3      \* closure body: reads and writes the captured x
F_PAD == 4      \* pad no-ops, then return

F_E_PANIC == 5  \* entry: a panic that nobody recovers, raised two calls deep
F_A == 6        \* calls F_B
F_B == 7        \* defers three calls, one of which waits on a channel; panics
F_T == 8        \* deferred: looks at its argument
F_W == 9        \* deferred: receives from the channel it is given
F_SENDER == 10  \* goroutine: sends on the channel it is given
F_E_REC == 11   \* entry: a panic recovered by the second of three deferred calls
F_C == 12       \* defers F_T(1), F_R(2), F_T(3); panics
F_R == 13       \* deferred: recovers, twice
F_E_EARLY == 14 \* entry: a deferred call panics during an early return
F_G == 15       \* defers F_T(1), F_P(2); returns before its last instruction
F_P == 16       \* deferred: panics
F_E_SPIN == 17  \* entry: two goroutines, one of which never stops
F_SPIN == 18    \* goroutine: loops forever
F_WORK == 19    \* goroutine: a few instructions
F_E_FFI == 20   \* entry: a foreign call while a goroutine uses a captured local
F_FM == 21      \* starts a goroutine over its local x, then makes a foreign call
F_FG == 22      \* goroutine: writes and reads the captured x
F_E_PC == 23    \* entry: sums what it receives until the channel is closed
F_PROD == 24    \* goroutine: sends 0..ProdN-1, then closes the channel
F_E_SEL == 25   \* entry: four selects over two channels, then two receives
F_SELG == 26    \* goroutine: sends twice on its channel, closes it, sends again
F_E_TA == 27    \* entry: type assertions on an interface holding an int
F_TA == 28      \* defers a recover, asserts with and without the try flag
F_E_PKG == 29   \* entry: imports the same package twice
F_PKG == 30     \* the constructor of the package: two variables
F_E_GO == 31    \* entry: starts a goroutine that makes a closure over its local
F_GM == 32      \* goroutine: local x, a closure over x, a call of it
F_GI == 33      \* closure body: reads the captured x
F_E_SH == 34    \* entry: two closures over one local, used after their maker returned
F_SH == 35      \* makes a setter and a getter over its local x, calls and returns both
F_SET == 36     \* closure body: x = x + 1
F_GET == 37     \* closure body: returns x
F_E_DC == 38    \* entry: a deferred call that calls a function before it recovers
F_DP == 39      \* defers F_DR, panics
F_DR == 40      \* deferred: calls F_WORK, then recovers
F_E_TMP == 41   \* entry: a recovered panic raised with a temporary on the stack
F_TP == 42      \* defers F_R, pushes a temporary, panics
F_E_DL == 43    \* entry: defers F_GM, a function with a captured local
F_E_NF == 44    \* entry: calls in argument position, one of which recovers a panic
F_ONE == 45     \* returns 1
F_NP == 46      \* defers F_R, stages a call of F_WORK, panics before the CALL

FuncKeys == F_E_CLS..F_NP
Entries == {F_E_CLS, F_E_PANIC, F_E_REC, F_E_EARLY, F_E_SPIN, F_E_FFI, F_E_PC, F_E_SEL,
            F_E_TA, F_E_PKG, F_E_GO, F_E_SH, F_E_DC,
            F_E_TMP, F_E_DL, F_E_NF}
\* the entries whose program calls F_PAD
PadEntries == {F_E_PANIC, F_E_REC, F_E_SPIN}


NOP == I1("JUMP", 0)
RET == I0("RETURN")
RETD == Ins("RETURN", "FlagB", 0, 0)
STL(index) == Ins("STORE_LOCAL", "Void", index, -1)
CALLV == Ins("CALL", "Void", 0, 0)
CALLGO == Ins("CALL", "FlagA", 0, 0)
CALLDEFER == Ins("CALL", "FlagB", 0, 0)
\* v, ok = <-ch
RECVOK == [I0("RECV") EXCEPT !.t1 = "FlagA"]
\* consts: the metas of int and string
M_INT == 1
M_STR == 2
\* ifaces: mapping -> the meta of the binding
ifaces == << M_INT >>
\* interface(x): the value rhs slots below the top becomes an interface
CASTI(target) == Ins("CAST", "Interface", 0, target)
\* x.(T), and with do_try > 0: v, ok := x.(T)
TA(meta, do_try) == [I1("TYPE_ASSERT", meta) EXCEPT !.t2 = do_try]
\* a slot of a select table: FlagA send, FlagB/C/D receive, FlagE default
SEL(flag, imm) == Ins("SELECT", flag, imm, 0)
\* make(chan, cap) stored in local index
MakeChan(cap, index) ==
    << I1("PUSH_CONST", 0), I1("PUSH_IMM", cap), I1("MAKE", 0), STL(index), I1("POP", 1) >>
\* the instructions of: call the function with key k without arguments
CallOf(k) == << I1("LITERAL", k), I0("PRE_CALL"), CALLV >>
\* defer k(n)
DeferOf(k, n) == << I1("LITERAL", k), I0("PRE_CALL"), I1("PUSH_IMM", n), CALLDEFER >>

FuncVal(k, n) ==
    CASE k = F_E_CLS ->
           \* locals: 0 = f, 1 = p
           Fn(<< I1("LITERAL", F_MK), I0("PRE_CALL"), CALLV,
                 STL(1), I1("POP", 1),            \* p = second result
                 STL(0), I1("POP", 1),            \* f = first result
                 I1("LOAD_LOCAL", 0), I0("PRE_CALL"), CALLV, I1("POP", 1),
                 I1("LOAD_LOCAL", 1), I0("DEREF"), I1("POP", 1),
                 I1("LOAD_LOCAL", 1), I1("PUSH_IMM", 3),
                 Ins("STORE_DEREF", "Void", -2, -1), I1("POP", 2),
                 I1("LOAD_LOCAL", 0), I0("PRE_CALL"), CALLV, I1("POP", 1),
                 RET >>, << >>, 0, 0, 2)
      [] k = F_MK ->
           \* slots: 0 = result f, 1 = result p, 2 = local x
           Fn(<< I1("PUSH_IMM", 5), STL(2), I1("POP", 1),
                 I1("LITERAL", F_INC), I1("POP", 1),   \* a closure that dies
                 I1("LITERAL", F_INC), STL(0), I1("POP", 1),
                 I1("REF_UPVALUE", 0), STL(1), I1("POP", 1),
                 I1("LOAD_LOCAL", 1), I1("PUSH_IMM", 7),
                 Ins("STORE_DEREF", "Void", -2, -1), I1("POP", 2),
                 I1("LOAD_LOCAL", 0), I0("PRE_CALL"), CALLV, I1("POP", 1),
                 RET >>,
              << Desc(F_MK, 2, FALSE) >>, 2, 0, 1)
      [] k = F_INC ->
           \* slot 0 = result; upvalue 0 = x of F_MK
           Fn(<< I1("LOAD_UPVALUE", 0), STL(0), I1("POP", 1),
                 I1("PUSH_IMM", 9), Ins("STORE_UPVALUE", "Void", 0, -1),
                 I1("POP", 1), RET >>,
              << Desc(F_MK, 2, TRUE) >>, 1, 0, 0)
      [] k = F_PAD ->
           Fn([i \in 1..(n + 1) |-> IF i <= n THEN NOP ELSE RET],
              << >>, 0, 0, 0)
      [] k = F_E_PANIC ->
           \* local 0 = ch
           Fn(CallOf(F_PAD) \o MakeChan(1, 0) \o
              << I1("LITERAL", F_SENDER), I0("PRE_CALL"), I1("LOAD_LOCAL", 0), CALLGO,
                 I1("LITERAL", F_A), I0("PRE_CALL"), I1("LOAD_LOCAL", 0), CALLV,
                 I1("PUSH_IMM", 1), I1("POP", 1), RET >>, << >>, 0, 0, 1)
      [] k = F_A ->
           Fn(<< I1("LITERAL", F_B), I0("PRE_CALL"), I1("LOAD_LOCAL", 0), CALLV,
                 I1("PUSH_IMM", 2), I1("POP", 1), RET >>, << >>, 0, 1, 0)
      [] k = F_B ->
           Fn(DeferOf(F_T, 1) \o
              << I1("LITERAL", F_W), I0("PRE_CALL"), I1("LOAD_LOCAL", 0), CALLDEFER >> \o
              DeferOf(F_T, 3) \o
              << I1("PUSH_IMM", 42), I0("PANIC"),
                 I1("PUSH_IMM", 0), I1("POP", 1), RETD >>, << >>, 0, 1, 0)
      [] k = F_T ->
           Fn(<< I1("LOAD_LOCAL", 0), I1("POP", 1), RET >>, << >>, 0, 1, 0)
      [] k = F_W ->
           Fn(<< I1("LOAD_LOCAL", 0), I0("RECV"), I1("POP", 1), RET >>, << >>, 0, 1, 0)
      [] k = F_SENDER ->
           Fn(<< I1("LOAD_LOCAL", 0), I1("PUSH_IMM", 8), I0("SEND"),
                 I1("LOAD_LOCAL", 0), I1("PUSH_IMM", 9), I0("SEND"),
                 I1("LOAD_LOCAL", 0), I0("CLOSE"),
                 I1("LOAD_LOCAL", 0), I1("PUSH_IMM", 10), I0("SEND"),
                 RET >>, << >>, 0, 1, 0)
      [] k = F_E_REC ->
           Fn(CallOf(F_PAD) \o CallOf(F_C) \o
              << I1("PUSH_IMM", 1), I1("POP", 1), I0("RECOVER"), I1("POP", 1), RET >>,
              << >>, 0, 0, 0)
      [] k = F_C ->
           Fn(DeferOf(F_T, 1) \o DeferOf(F_R, 2) \o DeferOf(F_T, 3) \o
              << I1("PUSH_IMM", 42), I0("PANIC"),
                 I1("PUSH_IMM", 0), I1("POP", 1), RETD >>, << >>, 0, 0, 0)
      [] k = F_R ->
           Fn(<< I0("RECOVER"), I1("POP", 1), I0("RECOVER"), I1("POP", 1), RET >>,
              << >>, 0, 1, 0)
      [] k = F_E_EARLY ->
           Fn(CallOf(F_G) \o << I1("PUSH_IMM", 1), I1("POP", 1), RET >>, << >>, 0, 0, 0)
      [] k = F_G ->
           Fn(DeferOf(F_T, 1) \o DeferOf(F_P, 2) \o
              << RETD, I1("PUSH_IMM", 0), I1("POP", 1), RETD >>, << >>, 0, 0, 0)
      [] k = F_P ->
           Fn(<< I1("PUSH_IMM", 13), I0("PANIC"), RET >>, << >>, 0, 1, 0)
      [] k = F_E_SPIN ->
           Fn(<< I1("LITERAL", F_SPIN), I0("PRE_CALL"), CALLGO,
                 I1("LITERAL", F_WORK), I0("PRE_CALL"), CALLGO >> \o
              CallOf(F_PAD) \o << RET >>, << >>, 0, 0, 0)
      [] k = F_SPIN ->
           Fn(<< I1("JUMP", -1), RET >>, << >>, 0, 0, 0)
      [] k = F_WORK ->
           Fn(<< I1("PUSH_IMM", 1), I1("POP", 1), RET >>, << >>, 0, 0, 0)
      [] k = F_E_FFI ->
           Fn(CallOf(F_FM) \o << RET >>, << >>, 0, 0, 0)
      [] k = F_FM ->
           \* local 0 = x
           Fn(<< I1("PUSH_IMM", 5), STL(0), I1("POP", 1),
                 I1("LITERAL", F_FG), I0("PRE_CALL"), CALLGO,
                 \* the foreign object, its first method, and the call of it
                 I1("PUSH_CONST", 0), I1("PUSH_CONST", 1), I1("PUSH_CONST", 2),
                 I1("FFI", 2), I1("BIND_INTERFACE_METHOD", 0),
                 I0("PRE_CALL"), I1("PUSH_IMM", 1), CALLV,
                 I1("LOAD_LOCAL", 0), I1("POP", 1), RET >>,
              << Desc(F_FM, 0, FALSE) >>, 0, 0, 1)
      [] k = F_FG ->
           Fn(<< I1("PUSH_IMM", 9), Ins("STORE_UPVALUE", "Void", 0, -1), I1("POP", 1),
                 I1("LOAD_UPVALUE", 0), I1("POP", 1), RET >>,
              << Desc(F_FM, 0, TRUE) >>, 0, 0, 0)
      [] k = F_E_PC ->
           \* locals: 0 = ch, 1 = sum
           Fn(MakeChan(ChanCap, 0) \o
              << I1("PUSH_IMM", 0), STL(1), I1("POP", 1),
                 I1("LITERAL", F_PROD), I0("PRE_CALL"), I1("LOAD_LOCAL", 0), CALLGO,
                 I1("LOAD_LOCAL", 0), RECVOK, I1("JUMP_IF_NOT", 5),   \* pc 12: v, ok
                 I1("LOAD_LOCAL", 1), I0("ADD"), STL(1), I1("POP", 1),
                 I1("JUMP", -8),
                 I1("POP", 1), RET >>, << >>, 0, 0, 2)
      [] k = F_PROD ->
           \* slots: 0 = ch (parameter), 1 = i
           Fn(<< I1("PUSH_IMM", 0), STL(1), I1("POP", 1),
                 I1("LOAD_LOCAL", 1), I1("PUSH_IMM", ProdN), I0("LSS"),   \* pc 3
                 I1("JUMP_IF_NOT", 9),
                 I1("LOAD_LOCAL", 0), I1("LOAD_LOCAL", 1), I0("SEND"),
                 I1("LOAD_LOCAL", 1), I1("PUSH_IMM", 1), I0("ADD"), STL(1), I1("POP", 1),
                 I1("JUMP", -13),
                 I1("LOAD_LOCAL", 0), I0("CLOSE"), RET >>, << >>, 0, 1, 1)
      [] k = F_E_SEL ->
           \* locals: 0 = a, 1 = b
           Fn(MakeChan(1, 0) \o MakeChan(2, 1) \o
              << I1("LITERAL", F_SELG), I0("PRE_CALL"), I1("LOAD_LOCAL", 1), CALLGO,
                 \* pc 14: select { case v := <-a: case <-b: default: }
                 I1("LOAD_LOCAL", 0), I1("LOAD_LOCAL", 1),
                 SEL("FlagC", 3), SEL("FlagB", 2), SEL("FlagE", 3),
                 I1("POP", 1), I1("JUMP", 2), I1("JUMP", 1), NOP,
                 \* pc 23: select { case v, ok := <-a: case v := <-b: }
                 I1("LOAD_LOCAL", 0), I1("LOAD_LOCAL", 1),
                 SEL("FlagD", 2), SEL("FlagC", 2),
                 I1("POP", 2), I1("JUMP", 1), I1("POP", 1),
                 \* pc 30: select { case a <- 5: case v, ok := <-b: }
                 I1("LOAD_LOCAL", 0), I1("PUSH_IMM", 5), I1("LOAD_LOCAL", 1),
                 SEL("FlagA", 2), SEL("FlagD", 1),
                 I1("JUMP", 1), I1("POP", 2),
                 \* pc 37: select { case a <- 6: default: }
                 I1("LOAD_LOCAL", 0), I1("PUSH_IMM", 6),
                 SEL("FlagA", 2), SEL("FlagE", 1),
                 NOP,
                 \* pc 42: v, ok = <-b, twice
                 I1("LOAD_LOCAL", 1), RECVOK, I1("POP", 2),
                 I1("LOAD_LOCAL", 1), RECVOK, I1("POP", 2), RET >>, << >>, 0, 0, 2)
      [] k = F_E_TA ->
           Fn(CallOf(F_TA) \o << I1("PUSH_IMM", 1), I1("POP", 1), RET >>, << >>, 0, 0, 0)
      [] k = F_TA ->
           Fn(DeferOf(F_R, 2) \o
              << I1("PUSH_IMM", 5), CASTI(-1), TA(M_STR, 1), I1("POP", 2),
                 I1("PUSH_IMM", 5), CASTI(-1), TA(M_INT, 1), I1("POP", 2),
                 I1("PUSH_IMM", 5), CASTI(-1), TA(M_INT, 0), I1("POP", 1),
                 I1("PUSH_IMM", 5), CASTI(-1), TA(M_STR, 0), I1("POP", 1),
                 I1("PUSH_IMM", 0), I1("POP", 1), RETD >>, << >>, 0, 0, 0)
      [] k = F_E_PKG ->
           \* if import(0) { call the constructor }, twice
           Fn(<< I1("IMPORT", 0), I1("JUMP_IF_NOT", 3) >> \o CallOf(F_PKG) \o
              << I1("IMPORT", 0), I1("JUMP_IF_NOT", 3) >> \o CallOf(F_PKG) \o
              << I1("IMPORT", 0), I1("POP", 1), RET >>, << >>, 0, 0, 0)
      [] k = F_PKG ->
           Fn(<< I1("IMPORT", 0), I1("POP", 1),
                 I1("PUSH_IMM", 7), I1("PUSH_IMM", 8),
                 Ins("RETURN", "FlagA", 0, 0) >>, << >>, 0, 0, 0)
      [] k = F_E_GO ->
           Fn(<< I1("LITERAL", F_GM), I0("PRE_CALL"), CALLGO, RET >>, << >>, 0, 0, 0)
      [] k = F_GM ->
           \* local 0 = x
           Fn(<< I1("PUSH_IMM", 5), STL(0), I1("POP", 1),
                 I1("LITERAL", F_GI), I0("PRE_CALL"), CALLV, RET >>,
              << Desc(F_GM, 0, FALSE) >>, 0, 0, 1)
      [] k = F_GI ->
           Fn(<< I1("LOAD_UPVALUE", 0), I1("POP", 1), RET >>,
              << Desc(F_GM, 0, TRUE) >>, 0, 0, 0)
      [] k = F_E_SH ->
           \* locals: 0 = set, 1 = get
           Fn(<< I1("LITERAL", F_SH), I0("PRE_CALL"), CALLV,
                 STL(1), I1("POP", 1), STL(0), I1("POP", 1),
                 I1("LOAD_LOCAL", 0), I0("PRE_CALL"), CALLV,
                 I1("LOAD_LOCAL", 1), I0("PRE_CALL"), CALLV, I1("POP", 1),
                 RET >>, << >>, 0, 0, 2)
      [] k = F_SH ->
           \* slots: 0 = result set, 1 = result get, 2 = local x
           Fn(<< I1("PUSH_IMM", 5), STL(2), I1("POP", 1),
                 I1("LITERAL", F_SET), STL(0), I1("POP", 1),
                 I1("LITERAL", F_GET), STL(1), I1("POP", 1),
                 I1("LOAD_LOCAL", 0), I0("PRE_CALL"), CALLV,
                 I1("LOAD_LOCAL", 1), I0("PRE_CALL"), CALLV, I1("POP", 1),
                 RET >>, << >>, 2, 0, 1)
      [] k = F_SET ->
           \* upvalue 0 = x of F_SH
           Fn(<< I1("LOAD_UPVALUE", 0), I1("PUSH_IMM", 1), I0("ADD"),
                 Ins("STORE_UPVALUE", "Void", 0, -1), I1("POP", 1), RET >>,
              << Desc(F_SH, 2, TRUE) >>, 0, 0, 0)
      [] k = F_GET ->
           \* slot 0 = result; upvalue 0 = x of F_SH
           Fn(<< I1("LOAD_UPVALUE", 0), STL(0), I1("POP", 1), RET >>,
              << Desc(F_SH, 2, TRUE) >>, 1, 0, 0)
      [] k = F_E_DC ->
           Fn(CallOf(F_DP) \o << I1("PUSH_IMM", 1), I1("POP", 1), RET >>, << >>, 0, 0, 0)
      [] k = F_DP ->
           Fn(DeferOf(F_DR, 1) \o
              << I1("PUSH_IMM", 42), I0("PANIC"),
                 I1("PUSH_IMM", 0), I1("POP", 1), RETD >>, << >>, 0, 0, 0)
      [] k = F_DR ->
           Fn(CallOf(F_WORK) \o << I0("RECOVER"), I1("POP", 1), RET >>, << >>, 0, 1, 0)
      [] k = F_E_TMP ->
           Fn(CallOf(F_TP) \o << I1("POP", 1), RET >>, << >>, 0, 0, 0)
      [] k = F_TP ->
           \* slot 0 = result, slot 1 = local; f(1, panic(42)) in the making
           Fn(DeferOf(F_R, 2) \o
              << I1("PUSH_IMM", 1), I1("PUSH_IMM", 42), I0("PANIC"),
                 I1("POP", 1), RETD >>, << >>, 1, 0, 1)
      [] k = F_E_DL ->
           Fn(<< I1("LITERAL", F_GM), I0("PRE_CALL"), CALLDEFER,
                 I1("PUSH_IMM", 0), I1("POP", 1), RETD >>, << >>, 0, 0, 0)
      [] k = F_E_NF ->
           \* F_T(F_ONE()); F_T(F_NP())
           Fn(<< I1("LITERAL", F_T), I0("PRE_CALL"),
                 I1("LITERAL", F_ONE), I0("PRE_CALL"), CALLV, CALLV,
                 I1("LITERAL", F_T), I0("PRE_CALL"),
                 I1("LITERAL", F_NP), I0("PRE_CALL"), CALLV, CALLV,
                 RET >>, << >>, 0, 0, 0)
      [] k = F_ONE ->
           Fn(<< I1("PUSH_IMM", 1), STL(0), I1("POP", 1), RET >>, << >>, 1, 0, 0)
      [] k = F_NP ->
           \* slot 0 = result
           Fn(DeferOf(F_R, 2) \o
              << I1("LITERAL", F_WORK), I0("PRE_CALL"),
                 I1("PUSH_IMM", 42), I0("PANIC"), CALLV, RETD >>, << >>, 1, 0, 0)
      [] k = F_SELG ->
           Fn(<< I1("LOAD_LOCAL", 0), I1("PUSH_IMM", 7), I0("SEND"),
                 I1("LOAD_LOCAL", 0), I1("PUSH_IMM", 8), I0("SEND"),
                 I1("LOAD_LOCAL", 0), I0("CLOSE"),
                 I1("LOAD_LOCAL", 0), I1("PUSH_IMM", 9), I0("SEND"),
                 RET >>, << >>, 0, 1, 0)

\* ------------------------------------------------------------------------
\* State
VARIABLES
    entry,      \* ByteCode.entry: the entry function of the loaded program
    functions,  \* VMObjects.functions: function key -> FunctionVal
    fibers,     \* fiber id -> Fiber (and the state of its main_loop future)
    queue,      \* the executor's FIFO of runnable tasks
    closures,   \* closure id -> ClosureObj
    upvalues,   \* cell id -> UpValueState
    chans,      \* channel id -> channel
    aborted,    \* a Rust panic (unwrap of None, unimplemented!) ended the VM
    objs,       \* the objects of a run of value-level operations (ObjSpec)
    packages    \* VMObjects.packages: package index -> PackageVal

vars == << entry, functions, fibers, queue, closures, upvalues, chans, aborted, objs,
          packages >>
vm_vars == << entry, functions, fibers, queue, closures, upvalues, chans, aborted,
             packages >>

FiberIds == 1..MaxFibers

\* no object: the heap of ObjSpec before its first operation
NoObjs == [kind |-> "none", vecs |-> << >>, slices |-> << >>, strs |-> << >>,
           structs |-> << >>, cells |-> << >>, ptrs |-> << >>, ifaces |-> << >>,
           keys |-> << >>, map |-> << >>, got |-> << >>,
           maps |-> << >>, stack |-> << >>, cmp |-> << >>, ops |-> << >>,
           heap |-> << >>, slots |-> << >>, consts |-> << >>,
           runtime |-> [some |-> FALSE]]

\* PackageVal::new and add_member / add_var_mapping for two variables: the
\* members, and var_mapping (Some: func_member_index -> pkg_member_index).
\* inits is history only: the number of package-init RETURNs executed.
PackageVal ==
    [members |-> << NilV, NilV >>, var_mapping |-> [some |-> TRUE, map |-> << 1, 0 >>],
     inits |-> 0]

\* PackageVal::inited
inited(pkg) == ~pkg.var_mapping.some

\* PackageVal::init_vars: the trailing values of the stack are popped into
\* the members that var_mapping names, the last one first
init_vars(pkg, stack) ==
    LET mapping == pkg.var_mapping.map
        count == Len(mapping)
    IN [members |-> [m \in DOMAIN pkg.members |->
                        IF \E j \in DOMAIN mapping : mapping[j] = m - 1
                        THEN stack[Len(stack) - count +
                                   (CHOOSE j \in DOMAIN mapping : mapping[j] = m - 1)]
                        ELSE pkg.members[m]],
        stack |-> DropN(stack, count)]

NoPanic == [set |-> FALSE, msg |-> NilV, call_stack |-> << >>]
NoPend == [chan |-> 0, val |-> NilV, flag |-> "Void", comms |-> << >>, blocks |-> 0]

\* CallFrame::with_closure.  Five fields are history only, the interpreter
\* never reads them: is_deferred (the frame was recorded by a deferred
\* CALL), ret_pc (the pc of the RETURN that installed it), recorded and ran
\* (the argument vectors of the deferred calls this frame recorded / ran),
\* height (the number of frames on the fiber when PRE_CALL staged this one).
with_closure(c, sbase) ==
    [closure |-> c, pc |-> 0, stack_base |-> sbase, var_ptrs |-> << >>,
     referred_by |-> << >>, defer_stack |-> << >>,
     is_deferred |-> FALSE, ret_pc |-> 0, recorded |-> << >>, ran |-> << >>,
     height |-> 0]

\* A fiber and the state of its task.  status: none, spawned (queued, never
\* polled), ready (queued), running, blocked (awaiting a channel), done.
\* at: the await or loop position the task is at.  panic and tick are
\* main_loop's locals `panic` and the iteration count of its for loop; pend
\* holds the operands of the channel operation being awaited; printed is
\* what Result::End printed.  stack_ref says who holds the RefMut of the
\* fiber's stack (self.stack.borrow_mut()): "none", "main_loop" (the local
\* stack_mut_ref) or "ffi" (the stack field of the FfiCallCtx).
\* History only: parent (the spawning fiber), psusp (the parent has stopped
\* running since the spawn), polls (times the task was polled, up to 2),
\* raised (the last panic raised and not consumed by RECOVER), deferred_log
\* (argument vectors of the deferred calls run), recover_log (the values
\* RECOVER pushed), select_log (for each SELECT completed: the pc it stood
\* at, the slot that won, -1 for the default, and the pc it jumped to),
\* recv_log (for each RECV completed: the value and ok it gave, and whether
\* the channel was closed).
NoFiber ==
    [status |-> "none", at |-> "spawn", stack |-> << >>, frames |-> << >>,
     next_frames |-> << >>, panic |-> NoPanic, tick |-> 0, pend |-> NoPend,
     stack_ref |-> "none",
     printed |-> NoPanic, parent |-> 0, psusp |-> FALSE, polls |-> 0,
     raised |-> NoPanic, deferred_log |-> << >>, recover_log |-> << >>,
     select_log |-> << >>, recv_log |-> << >>]

\* Fiber::new, as spawned: its task is queued and has not been polled yet
NewFiber(stack, first_frame, parent) ==
    [NoFiber EXCEPT !.status = "spawned", !.stack = stack,
                    !.frames = << first_frame >>, !.parent = parent]

\* UpValueState
OpenCell(d, stack, stack_base) ==
    [state |-> "Open", func |-> d.func, index |-> d.index, stack |-> stack,
     stack_base |-> stack_base, val |-> NilV]
ClosedCell(v) ==
    [state |-> "Closed", func |-> 0, index |-> 0, stack |-> 0,
     stack_base |-> 0, val |-> v]
\* a cell whose last strong reference is gone (Weak::upgrade gives None)
DeadCell == [ClosedCell(NilV) EXCEPT !.state = "Dead"]
DeadCls == [func |-> 0, uvs |-> << >>, ffi |-> 0]

\* CallFrame::func
func(fr) == closures[fr.closure].func
Func(k) == functions[k]
\* FunctionVal::code / param_count / stack_temp_types.len()
code(k) == Func(k).code
stack_temp_len(k) == Func(k).param_count + Func(k).local_count

\* ------------------------------------------------------------------------
\* Reference counting.  Every Rc in the program is dropped as soon as its
\* last owner goes; the model keeps an object exactly as long as it is
\* reachable from a fiber or a channel buffer (reference cycles, which only
\* the collector at fiber exit breaks, are not distinguished).
ValRefs(v) ==
    IF v.t = "cls" THEN {<< "c", v.n >>}
    ELSE IF v.t = "ptr" THEN {<< "u", v.n >>} ELSE {}

SeqRefs(s) == UNION {ValRefs(s[i]) : i \in DOMAIN s}

PlainFrameRefs(fr) ==
    {<< "c", fr.closure >>} \cup {<< "u", fr.var_ptrs[i] >> : i \in DOMAIN fr.var_ptrs}

FrameRefs(fr) ==
    PlainFrameRefs(fr) \cup
    UNION {PlainFrameRefs(fr.defer_stack[i].frame) \cup SeqRefs(fr.defer_stack[i].vec)
             : i \in DOMAIN fr.defer_stack}

FiberRefs(fb) ==
    IF fb.status \in {"none", "done"} THEN {}
    ELSE SeqRefs(fb.stack) \cup ValRefs(fb.pend.val) \cup ValRefs(fb.panic.msg)
         \cup UNION {FrameRefs(fb.frames[i]) : i \in DOMAIN fb.frames}
         \cup UNION {FrameRefs(fb.next_frames[i]) : i \in DOMAIN fb.next_frames}

Roots(fbs, chs) ==
    UNION {FiberRefs(fbs[f]) : f \in DOMAIN fbs}
    \cup UNION {SeqRefs(chs[c].buf) : c \in DOMAIN chs}

ObjRefs(o, cls, uvs) ==
    IF o[1] = "c"
    THEN {<< "u", cls[o[2]].uvs[i] >> : i \in {j \in DOMAIN cls[o[2]].uvs : cls[o[2]].uvs[j] # 0}}
    ELSE IF uvs[o[2]].state = "Closed" THEN ValRefs(uvs[o[2]].val) ELSE {}

\* the objects reachable from the set S (each round's set is bound once)
RECURSIVE Reach(_, _, _)
Reach(S, cls, uvs) ==
    CHOOSE R \in {IF T = S THEN S ELSE Reach(T, cls, uvs) :
                    T \in {S \cup UNION {ObjRefs(o, cls, uvs) : o \in S}}} : TRUE

\* the state after an instruction: the objects no longer referenced are gone
CommitP(fibers1, nqueue, closures1, upvalues1, nchans, npackages) ==
    \E nfibers \in {fibers1} : \E ncls \in {closures1} : \E nuvs \in {upvalues1} :
    \E live \in {Reach(Roots(nfibers, nchans), ncls, nuvs)} :
       /\ fibers' = [f \in DOMAIN nfibers |->
                        LET p == nfibers[f].parent
                        IN IF p # 0 /\ nfibers[p].status # "running"
                           THEN [nfibers[f] EXCEPT !.psusp = TRUE]
                           ELSE nfibers[f]]
       /\ queue' = nqueue
       /\ closures' = [c \in DOMAIN ncls |->
                         IF << "c", c >> \in live THEN ncls[c] ELSE DeadCls]
       /\ upvalues' = [u \in DOMAIN nuvs |->
                         IF << "u", u >> \in live THEN nuvs[u] ELSE DeadCell]
       /\ chans' = nchans
       /\ packages' = npackages
       /\ UNCHANGED << entry, functions, objs >>

Commit(fibers1, nqueue, closures1, upvalues1, nchans) ==
    CommitP(fibers1, nqueue, closures1, upvalues1, nchans, packages)

\* only fiber f changes
Upd(f, fb) == [fibers EXCEPT ![f] = fb]
CommitF(f, fb) ==
    /\ Commit(Upd(f, fb), queue, closures, upvalues, chans)
    /\ UNCHANGED aborted

\* ------------------------------------------------------------------------
\* GosVM::run: the program is loaded, the entry frame is built over a static
\* closure of the entry function, and the root fiber is spawned.
Init ==
    /\ entry \in Entries
    /\ \E n \in IF entry \in PadEntries THEN PadChoices ELSE {0} :
          functions = [k \in FuncKeys |-> FuncVal(k, n)]
    /\ closures = << [func |-> entry, uvs |-> << >>, ffi |-> 0] >>
    /\ upvalues = << >>
    /\ chans = << >>
    /\ fibers = [f \in FiberIds |->
                   IF f = 1 THEN NewFiber(<< >>, with_closure(1, 0), 0) ELSE NoFiber]
    /\ queue = << 1 >>
    /\ aborted = FALSE
    /\ objs = NoObjs
    /\ packages = << PackageVal >>

Running == {f \in FiberIds : fibers[f].status = "running"}

\* an executor that polls a task while another is being polled
Tick_overlapping ==
    /\ ~aborted
    /\ queue # << >>
    /\ Commit(Upd(Head(queue), [fibers[Head(queue)] EXCEPT
                                    !.status = "running",
                                    !.polls = IF @ < 2 THEN @ + 1 ELSE @]),
              Tail(queue), closures, upvalues, chans)
    /\ UNCHANGED aborted

\* LocalExecutor::try_tick: take the next runnable task and poll it
Tick ==
    /\ ~aborted
    /\ Running = {}
    /\ queue # << >>
    /\ Commit(Upd(Head(queue), [fibers[Head(queue)] EXCEPT
                                    !.status = "running",
                                    !.polls = IF @ < 2 THEN @ + 1 ELSE @]),
              Tail(queue), closures, upvalues, chans)
    /\ UNCHANGED aborted

\* future::yield_now: the task goes to the back of the run queue
Yield(f, fb, at) ==
    /\ Commit(Upd(f, [fb EXCEPT !.status = "ready", !.at = at, !.stack_ref = "none"]),
              Append(queue, f), closures, upvalues, chans)
    /\ UNCHANGED aborted

\* a task that enters main_loop on its first poll
FirstYield_skipped(f) ==
    /\ ~aborted
    /\ fibers[f].status = "running" /\ fibers[f].at = "spawn"
    /\ CommitF(f, [fibers[f] EXCEPT !.at = "start"])

\* spawn_fiber's task, first poll: "let parent fiber go first"
FirstYield(f) ==
    /\ ~aborted
    /\ fibers[f].status = "running" /\ fibers[f].at = "spawn"
    /\ Yield(f, fibers[f], "start")

\* main_loop's prologue: allocate the local variables of the first frame
Start(f) ==
    /\ ~aborted
    /\ fibers[f].status = "running" /\ fibers[f].at = "start"
    /\ LET fb == fibers[f]
           k == func(Last(fb.frames))
       IN CommitF(f, [fb EXCEPT !.stack = fb.stack \o Zeros(Func(k).local_count),
                                !.at = "exec", !.tick = 0, !.panic = NoPanic,
                                !.stack_ref = "main_loop"])

\* a main_loop that starts its next quantum without yielding
QuantumYield_staying(f) ==
    /\ ~aborted
    /\ fibers[f].status = "running" /\ fibers[f].at = "exec"
    /\ fibers[f].tick = yield_unit
    /\ CommitF(f, [fibers[f] EXCEPT !.tick = 0])

\* Result::Continue after yield_unit iterations: yield to the executor
QuantumYield(f) ==
    /\ ~aborted
    /\ fibers[f].status = "running" /\ fibers[f].at = "exec"
    /\ fibers[f].tick = yield_unit
    /\ Yield(f, fibers[f], "quantum")

\* the next iteration of main_loop's outer loop, with its fresh locals
NewQuantum(f) ==
    /\ ~aborted
    /\ fibers[f].status = "running" /\ fibers[f].at = "quantum"
    /\ CommitF(f, [fibers[f] EXCEPT !.at = "exec", !.tick = 0, !.panic = NoPanic,
                                     !.stack_ref = "main_loop"])

\* ------------------------------------------------------------------------
\* The instruction loop
Exec(f) ==
    /\ ~aborted
    /\ fibers[f].status = "running" /\ fibers[f].at = "exec"
    /\ fibers[f].tick < yield_unit

TopFrame(f) == Last(fibers[f].frames)
CurInst(f) == code(func(TopFrame(f)))[TopFrame(f).pc + 1]
Doing(f, op) == Exec(f) /\ CurInst(f).op = op

SetTop(frames, fr) == [frames EXCEPT ![Len(frames)] = fr]
\* the fiber after the fetch: one more iteration, frame.pc += 1
Fetched(f) ==
    LET fb == fibers[f]
    IN [fb EXCEPT !.tick = fb.tick + 1,
                  !.frames = SetTop(fb.frames, [Last(fb.frames) EXCEPT !.pc = @ + 1])]

\* Stack::offset
offset(base, off) == base + off
stack_base(fb) == Last(fb.frames).stack_base

\* go_panic! / go_panic_str!
go_panic(fb, msg) ==
    LET fr == Last(fb.frames)
        k == func(fr)
    IN [fb EXCEPT !.panic = [set |-> TRUE, msg |-> msg,
                             call_stack |-> << << k, fr.pc - 1 >> >>],
                  !.raised = [set |-> TRUE, msg |-> msg, call_stack |-> << >>],
                  !.frames = SetTop(fb.frames, [fr EXCEPT !.pc = Len(code(k)) - 1])]

PUSH_IMM(f) ==
    /\ Doing(f, "PUSH_IMM")
    /\ LET fb == Fetched(f)
       IN CommitF(f, [fb EXCEPT !.stack = Append(@, IntV(CurInst(f).imm))])

PUSH_CONST(f) ==
    /\ Doing(f, "PUSH_CONST")
    /\ LET fb == Fetched(f)
       IN CommitF(f, [fb EXCEPT !.stack = Append(@, Val("meta", CurInst(f).imm))])

POP(f) ==
    /\ Doing(f, "POP")
    /\ LET fb == Fetched(f)
       IN CommitF(f, [fb EXCEPT !.stack = DropN(@, CurInst(f).imm)])

LOAD_LOCAL(f) ==
    /\ Doing(f, "LOAD_LOCAL")
    /\ LET fb == Fetched(f)
           index == offset(stack_base(fb), CurInst(f).imm)
       IN CommitF(f, [fb EXCEPT !.stack = Append(@, fb.stack[index + 1])])

\* Stack::store_local with a negative rhs index: a plain store of the
\* value rhs slots below the top
STORE_LOCAL(f) ==
    /\ Doing(f, "STORE_LOCAL")
    /\ LET fb == Fetched(f)
           s_index == offset(stack_base(fb), CurInst(f).imm)
           rhs == fb.stack[offset(Len(fb.stack), CurInst(f).rhs) + 1]
       IN CommitF(f, [fb EXCEPT !.stack[s_index + 1] = rhs])

JUMP(f) ==
    /\ Doing(f, "JUMP")
    /\ LET fb == Fetched(f)
           fr == Last(fb.frames)
       IN CommitF(f, [fb EXCEPT !.frames =
                         SetTop(fb.frames, [fr EXCEPT !.pc = offset(fr.pc, CurInst(f).imm)])])

JUMP_IF_NOT(f) ==
    /\ Doing(f, "JUMP_IF_NOT")
    /\ LET fb == Fetched(f)
           fr == Last(fb.frames)
           popped == [fb EXCEPT !.stack = Front(@)]
       IN CommitF(f, IF Last(fb.stack).n = 0
                     THEN [popped EXCEPT !.frames =
                              SetTop(fb.frames, [fr EXCEPT !.pc = offset(fr.pc, CurInst(f).imm)])]
                     ELSE popped)

\* Stack::add / Stack::compare_lss on two ints
ADD(f) ==
    /\ Doing(f, "ADD")
    /\ LET fb == Fetched(f)
           a == fb.stack[Len(fb.stack) - 1]
           b == Last(fb.stack)
       IN CommitF(f, [fb EXCEPT !.stack = Append(DropN(@, 2), IntV(a.n + b.n))])

\* a comparison that is true of equal operands
LSS_or_equal(f) ==
    /\ Doing(f, "LSS")
    /\ LET fb == Fetched(f)
           a == fb.stack[Len(fb.stack) - 1]
           b == Last(fb.stack)
       IN CommitF(f, [fb EXCEPT !.stack = Append(DropN(@, 2),
                                                 Val("bool", IF a.n <= b.n THEN 1 ELSE 0))])

LSS(f) ==
    /\ Doing(f, "LSS")
    /\ LET fb == Fetched(f)
           a == fb.stack[Len(fb.stack) - 1]
           b == Last(fb.stack)
       IN CommitF(f, [fb EXCEPT !.stack = Append(DropN(@, 2),
                                                 Val("bool", IF a.n < b.n THEN 1 ELSE 0))])

\* a Rust panic inside the interpreter ends the whole VM
Abort ==
    /\ aborted' = TRUE
    /\ UNCHANGED << entry, functions, fibers, queue, closures, upvalues, chans, objs,
                    packages >>

\* ------------------------------------------------------------------------
\* Interfaces

\* InterfaceObj::Gos(under, Some(binding)): the underlying value and the meta
\* of its dynamic type
IfaceV(under, meta) == [t |-> "iface", n |-> under.n, ut |-> under.t, meta |-> meta]
underlying(iface) == Val(iface.ut, iface.n)

\* CAST to an interface (copy_semantic of an int is the int)
CAST(f) ==
    /\ Doing(f, "CAST")
    /\ CurInst(f).t0 = "Interface"
    /\ LET fb == Fetched(f)
           target_index == offset(Len(fb.stack), CurInst(f).rhs)
           binding == ifaces[CurInst(f).imm + 1]
           under == fb.stack[target_index + 1]
       IN CommitF(f, [fb EXCEPT !.stack[target_index + 1] = IfaceV(under, binding)])

\* TYPE_ASSERT: without the try flag a failed assertion is unimplemented!()
TYPE_ASSERT(f) ==
    /\ Doing(f, "TYPE_ASSERT")
    /\ LET fb == Fetched(f)
           iface == Last(fb.stack)
           ok == CurInst(f).imm = iface.meta
           do_try == CurInst(f).t2 > 0
           pushed == [fb EXCEPT !.stack = Append(Front(@), underlying(iface))]
       IN IF ~do_try
          THEN IF ~ok THEN Abort ELSE CommitF(f, pushed)
          ELSE CommitF(f, [pushed EXCEPT !.stack =
                              Append(@, Val("bool", IF ok THEN 1 ELSE 0))])

\* ------------------------------------------------------------------------
\* Upvalues

\* Weak<RefCell<Stack>>::upgrade succeeds while the owning fiber exists
StackAlive(s) == s # 0 /\ fibers[s].status \notin {"none", "done"}

\* the stack that a descriptor of fiber f's instruction designates, fb being
\* f's fiber as the instruction has left it so far
StackOf(f, fb, s) == IF s = f THEN fb.stack ELSE fibers[s].stack

\* ValueDesc::load / store can be carried out: the Weak upgrades, the
\* RefCell of another fiber's stack can be borrowed, the slot exists
DescOk(f, fb, d) ==
    /\ StackAlive(d.stack)
    /\ d.stack = f \/ fibers[d.stack].stack_ref = "none"
    /\ d.stack_base + d.index + 1 \in DOMAIN StackOf(f, fb, d.stack)

\* UpValue::value
value(f, fb, u) ==
    LET d == upvalues[u]
    IN IF d.state = "Open"
       THEN StackOf(f, fb, d.stack)[d.stack_base + d.index + 1]
       ELSE d.val

CellOk(f, fb, u) == upvalues[u].state = "Closed" \/ DescOk(f, fb, upvalues[u])

\* Stack::store_up_value / UpValue::set_value with a plain store: the new
\* fibers and the new cells
StoredFibers(f, fb, u, v) ==
    LET d == upvalues[u]
    IN IF d.state = "Open"
       THEN IF d.stack = f
            THEN Upd(f, [fb EXCEPT !.stack[d.stack_base + d.index + 1] = v])
            ELSE [Upd(f, fb) EXCEPT ![d.stack].stack[d.stack_base + d.index + 1] = v]
       ELSE Upd(f, fb)

\* a store that closes the cell it writes through
StoredCells_closing(u, v) == [upvalues EXCEPT ![u] = ClosedCell(v)]

StoredCells(u, v) ==
    IF upvalues[u].state = "Open" THEN upvalues
    ELSE [upvalues EXCEPT ![u].val = v]

StoreUpValue(f, fb, u, v) ==
    IF CellOk(f, fb, u)
    THEN /\ Commit(StoredFibers(f, fb, u, v), queue, closures, StoredCells(u, v), chans)
         /\ UNCHANGED aborted
    ELSE Abort

LOAD_UPVALUE(f) ==
    /\ Doing(f, "LOAD_UPVALUE")
    /\ LET fb == Fetched(f)
           u == Last(fb.frames).var_ptrs[CurInst(f).imm + 1]
       IN IF CellOk(f, fb, u)
          THEN CommitF(f, [fb EXCEPT !.stack = Append(@, value(f, fb, u))])
          ELSE Abort

STORE_UPVALUE(f) ==
    /\ Doing(f, "STORE_UPVALUE")
    /\ LET fb == Fetched(f)
           u == Last(fb.frames).var_ptrs[CurInst(f).imm + 1]
           rhs == fb.stack[offset(Len(fb.stack), CurInst(f).rhs) + 1]
       IN StoreUpValue(f, fb, u, rhs)

REF_UPVALUE(f) ==
    /\ Doing(f, "REF_UPVALUE")
    /\ LET fb == Fetched(f)
           u == Last(fb.frames).var_ptrs[CurInst(f).imm + 1]
       IN CommitF(f, [fb EXCEPT !.stack = Append(@, PtrV(u))])

\* PointerObj::deref of a PointerObj::UpVal
DEREF(f) ==
    /\ Doing(f, "DEREF")
    /\ LET fb0 == Fetched(f)
           boxed == Last(fb0.stack)
           fb == [fb0 EXCEPT !.stack = Front(@)]
       IN IF CellOk(f, fb, boxed.n)
          THEN CommitF(f, [fb EXCEPT !.stack = Append(@, value(f, fb, boxed.n))])
          ELSE Abort

\* Stack::store_to_pointer of a PointerObj::UpVal
STORE_DEREF(f) ==
    /\ Doing(f, "STORE_DEREF")
    /\ LET fb == Fetched(f)
           p == fb.stack[offset(Len(fb.stack), CurInst(f).imm) + 1]
           rhs == fb.stack[offset(Len(fb.stack), CurInst(f).rhs) + 1]
       IN StoreUpValue(f, fb, p.n, rhs)

\* the positions 1..n of the boolean sequence b that hold TRUE, in order
RECURSIVE Sel(_, _)
Sel(b, n) ==
    IF n = 0 THEN << >>
    ELSE IF b[n] THEN Append(Sel(b, n - 1), n) ELSE Sel(b, n - 1)

\* CallFrame::add_referred_by, for a sequence of (index, cell) pairs
add_referred_by(fr, refs) == [fr EXCEPT !.referred_by = @ \o refs]

\* LITERAL of a function constant: ClosureObj::new_gos, then the search of
\* the frame that owns each captured variable
LiteralFrame(frames, k) ==
    LET hits == {j \in 2..Len(frames) : func(frames[j]) = k}
    IN IF hits = {} THEN 0 ELSE CHOOSE j \in hits : \A i \in hits : i <= j

LITERAL(f) ==
    /\ Doing(f, "LITERAL")
    /\ LET fb == Fetched(f)
           key == CurInst(f).imm
           ups == Func(key).up_ptrs
           caps == Sel([i \in DOMAIN ups |-> ups[i].is_up_value], Len(ups))
           id(r) == Len(upvalues) + r
           slot(i) == CHOOSE r \in DOMAIN caps : caps[r] = i
           home(r) == LiteralFrame(fb.frames, ups[caps[r]].func)
           cells == [r \in DOMAIN caps |->
                       IF home(r) = 0 THEN OpenCell(ups[caps[r]], 0, 0)
                       ELSE OpenCell(ups[caps[r]], f, fb.frames[home(r)].stack_base)]
           regs(j) == LET mine == Sel([r \in DOMAIN caps |-> home(r) = j], Len(caps))
                      IN [x \in DOMAIN mine |->
                            [index |-> ups[caps[mine[x]]].index, uv |-> id(mine[x])]]
           cid == Len(closures) + 1
           val == [func |-> key,
                   uvs |-> [i \in DOMAIN ups |->
                              IF ups[i].is_up_value THEN id(slot(i)) ELSE 0],
                   ffi |-> 0]
           nframes == [j \in DOMAIN fb.frames |-> add_referred_by(fb.frames[j], regs(j))]
       IN /\ Commit(Upd(f, [fb EXCEPT !.frames = nframes,
                                      !.stack = Append(@, ClsV(cid))]),
                    queue, Append(closures, val), upvalues \o cells, chans)
          /\ UNCHANGED aborted

\* ------------------------------------------------------------------------
\* Calls

PRE_CALL(f) ==
    /\ Doing(f, "PRE_CALL")
    /\ LET fb0 == Fetched(f)
           val == Last(fb0.stack)
           fb == [fb0 EXCEPT !.stack = Front(@)]
           next_frame == [with_closure(val.n, Len(fb.stack))
                            EXCEPT !.height = Len(fb.frames)]
           rets == IF closures[val.n].func = 0 THEN 0
                   ELSE Func(closures[val.n].func).ret_count
       IN CommitF(f, [fb EXCEPT !.stack = @ \o Zeros(rets),
                                !.next_frames = Append(@, next_frame)])

\* the var_ptrs of a frame about to run closure c: the closure's own cells
\* for real upvalues, a fresh Open cell registered in the new frame for
\* each local that has pointers to it
CallPtrs(c, nuv) ==
    LET ups == Func(closures[c].func).up_ptrs
        locs == Sel([i \in DOMAIN ups |-> ~ups[i].is_up_value], Len(ups))
        rank(i) == CHOOSE r \in DOMAIN locs : locs[r] = i
    IN [ptrs |-> [i \in DOMAIN ups |->
                    IF ups[i].is_up_value THEN closures[c].uvs[i] ELSE nuv + rank(i)],
        locs |-> locs]

\* a frame whose fresh cells are not registered in it
CallFrameOf_unregistered(f, nframe0) ==
    LET c == nframe0.closure
        ups == Func(closures[c].func).up_ptrs
        cp == CallPtrs(c, Len(upvalues))
    IN IF Len(ups) = 0 THEN [frame |-> nframe0, cells |-> << >>]
       ELSE [frame |-> [nframe0 EXCEPT !.var_ptrs = cp.ptrs],
             cells |-> [r \in DOMAIN cp.locs |->
                          OpenCell(ups[cp.locs[r]], f, nframe0.stack_base)]]

CallFrameOf(f, nframe0) ==
    LET c == nframe0.closure
        ups == Func(closures[c].func).up_ptrs
        cp == CallPtrs(c, Len(upvalues))
    IN IF Len(ups) = 0 THEN [frame |-> nframe0, cells |-> << >>]
       ELSE [frame |-> add_referred_by(
                         [nframe0 EXCEPT !.var_ptrs = cp.ptrs],
                         [r \in DOMAIN cp.locs |->
                            [index |-> ups[cp.locs[r]].index,
                             uv |-> Len(upvalues) + r]]),
             cells |-> [r \in DOMAIN cp.locs |->
                          OpenCell(ups[cp.locs[r]], f, nframe0.stack_base)]]

FreeFibers == {g \in FiberIds : fibers[g].status = "none"}

\* the foreign object's methods: the number of parameters of each
FfiMethods == << 1 >>

\* the await of a foreign call by fiber f, whose state is fb so far: the
\* future is ready with Ok (no results) or with Err, or it is pending and
\* the FfiCallCtx keeps the stack borrowed
FfiAwait(f, fb) ==
    \/ CommitF(f, [fb EXCEPT !.at = "exec", !.stack_ref = "main_loop"])
    \/ CommitF(f, go_panic([fb EXCEPT !.at = "exec", !.stack_ref = "main_loop"],
                           StrV(MSG_FFI_ERROR)))
    \/ CommitF(f, [fb EXCEPT !.status = "blocked", !.at = "ffi", !.stack_ref = "ffi"])

\* CALL of a closure without a function key
CallFfi(f) ==
    LET fb == Fetched(f)
        call == closures[Last(fb.next_frames).closure].ffi
    IN FfiAwait(f, [fb EXCEPT !.next_frames = Front(@),
                              !.stack = DropN(@, FfiMethods[call])])

\* the task is polled again after the foreign future's waker ran
FfiRetry(f) ==
    /\ ~aborted
    /\ fibers[f].status = "running" /\ fibers[f].at = "ffi"
    /\ FfiAwait(f, fibers[f])

\* Opcode::FFI: FfiFactory::create_by_name gives the foreign object, which
\* is wrapped in an interface, or an error
FFI(f) ==
    /\ Doing(f, "FFI")
    /\ LET fb == Fetched(f)
           total_params == CurInst(f).imm
           popped == [fb EXCEPT !.stack = DropN(@, 1 + (total_params - 2))]
       IN \/ CommitF(f, [popped EXCEPT !.stack = Append(DropN(@, 2), Val("ffi", 1))])
          \/ CommitF(f, go_panic(popped, StrV(MSG_FFI_ERROR)))

\* bind_method of an InterfaceObj::Ffi: ClosureObj::new_ffi
BIND_INTERFACE_METHOD(f) ==
    /\ Doing(f, "BIND_INTERFACE_METHOD")
    /\ LET fb == Fetched(f)
           index == CurInst(f).imm
           cls == [func |-> 0, uvs |-> << >>, ffi |-> index + 1]
       IN /\ Commit(Upd(f, [fb EXCEPT !.stack = Append(Front(@), ClsV(Len(closures) + 1))]),
                    queue, Append(closures, cls), upvalues, chans)
          /\ UNCHANGED aborted

\* CALL of a closure with a function key
CallGos(f) ==
    /\ LET fb0 == Fetched(f)
           fb == [fb0 EXCEPT !.next_frames = Front(@)]
           cf == CallFrameOf(f, Last(fb0.next_frames))
           nframe == cf.frame
           nfunc == Func(closures[nframe.closure].func)
           nuvs == upvalues \o cf.cells
           call_style == CurInst(f).t0
       IN CASE call_style = "Void" ->
                 /\ Commit(Upd(f, [fb EXCEPT !.frames = Append(@, nframe),
                                             !.stack = @ \o Zeros(nfunc.local_count)]),
                           queue, closures, nuvs, chans)
                 /\ UNCHANGED aborted
            [] call_style = "FlagA" ->
                 \* goroutine: Context::spawn_fiber
                 /\ FreeFibers # {}
                 /\ LET g == CHOOSE g \in FreeFibers : \A h \in FreeFibers : g <= h
                        nstack == TopN(fb.stack, nfunc.param_count)
                        child == NewFiber(nstack, [nframe EXCEPT !.stack_base = 0], f)
                    IN Commit([Upd(f, [fb EXCEPT !.stack = DropN(@, nfunc.param_count)])
                                 EXCEPT ![g] = child],
                              Append(queue, g), closures, nuvs, chans)
                 /\ UNCHANGED aborted
            [] call_style = "FlagB" ->
                 /\ LET deferred == [frame |-> [nframe EXCEPT !.is_deferred = TRUE],
                                     vec |-> TopN(fb.stack, nfunc.param_count)]
                        fr == Last(fb.frames)
                    IN Commit(Upd(f, [fb EXCEPT
                                 !.stack = DropN(@, nfunc.param_count),
                                 !.frames = SetTop(fb.frames,
                                    [fr EXCEPT !.defer_stack = Append(@, deferred),
                                               !.recorded = Append(@, deferred.vec)])]),
                              queue, closures, nuvs, chans)
                 /\ UNCHANGED aborted

CALL(f) ==
    /\ Doing(f, "CALL")
    /\ IF closures[Last(fibers[f].next_frames).closure].func = 0
       THEN CallFfi(f)
       ELSE CallGos(f)

\* on_drop reading the slot without the frame's stack base
on_drop_unbased(fr, stack, uvs) ==
    [u \in DOMAIN uvs |->
       IF uvs[u].state # "Dead" /\ \E i \in DOMAIN fr.referred_by : fr.referred_by[i].uv = u
       THEN LET r == fr.referred_by[CHOOSE i \in DOMAIN fr.referred_by :
                                       fr.referred_by[i].uv = u]
            IN ClosedCell(stack[r.index + 1])
       ELSE uvs[u]]

\* CallFrame::on_drop: every registered cell that is still alive is closed
\* over the current value of its slot
on_drop(fr, stack, uvs) ==
    [u \in DOMAIN uvs |->
       IF uvs[u].state # "Dead" /\ \E i \in DOMAIN fr.referred_by : fr.referred_by[i].uv = u
       THEN LET r == fr.referred_by[CHOOSE i \in DOMAIN fr.referred_by :
                                       fr.referred_by[i].uv = u]
            IN ClosedCell(stack[offset(fr.stack_base, r.index) + 1])
       ELSE uvs[u]]

\* Result::End: the panic, if any, is printed and the fiber is over
Ended(fb) ==
    [fb EXCEPT !.status = "done", !.printed = fb.panic, !.stack = << >>,
               !.frames = << >>, !.next_frames = << >>, !.panic = NoPanic,
               !.stack_ref = "none"]

\* the frame that is resumed after a pop, when a panic is pending
Unwound(fb) ==
    LET fr == Last(fb.frames)
        k == func(fr)
    IN IF fb.panic.set
       THEN [fb EXCEPT !.panic.call_stack = Append(@, << k, fr.pc - 1 >>),
                       !.frames = SetTop(fb.frames, [fr EXCEPT !.pc = Len(code(k)) - 1])]
       ELSE fb

\* RETURN running the oldest deferred call first
RunDeferred_fifo(f) ==
    LET fb == Fetched(f)
        fr == Last(fb.frames)
        call == Head(fr.defer_stack)
        fkey == closures[call.frame.closure].func
    IN CommitF(f, [fb EXCEPT
          !.frames = Append(SetTop(fb.frames,
                               [fr EXCEPT !.defer_stack = Tail(@), !.pc = @ - 1,
                                          !.ran = Append(@, call.vec)]),
                            [call.frame EXCEPT !.ret_pc = fr.pc - 1]),
          !.deferred_log = Append(@, call.vec),
          !.stack = (@ \o call.vec) \o Zeros(Func(fkey).local_count)])

\* RETURN with FlagB and a pending deferred call: run it
RunDeferred(f) ==
    LET fb == Fetched(f)
        fr == Last(fb.frames)
        call == Last(fr.defer_stack)
        fkey == closures[call.frame.closure].func
    IN CommitF(f, [fb EXCEPT
          !.frames = Append(SetTop(fb.frames,
                               [fr EXCEPT !.defer_stack = Front(@), !.pc = @ - 1,
                                          !.ran = Append(@, call.vec)]),
                            [call.frame EXCEPT !.ret_pc = fr.pc - 1]),
          !.deferred_log = Append(@, call.vec),
          !.stack = (@ \o call.vec) \o Zeros(Func(fkey).local_count)])

\* RETURN that pops the frame
PopFrame(f) ==
    LET fb == Fetched(f)
        fr == Last(fb.frames)
        nuvs == on_drop(fr, fb.stack, upvalues)
        popped == [fb EXCEPT !.stack = DropN(@, stack_temp_len(func(fr))),
                             !.frames = Front(@)]
    IN /\ Commit(Upd(f, IF popped.frames = << >> THEN Ended(popped) ELSE Unwound(popped)),
                 queue, closures, nuvs, chans)
       /\ UNCHANGED aborted

\* RETURN with FlagA, of a package constructor: init_vars, then the frame
\* is popped with clear_stack false (unwrap of a var_mapping of None is a
\* Rust panic)
InitPackage(f) ==
    LET fb == Fetched(f)
        index == CurInst(f).imm + 1
        bound == init_vars(packages[index], fb.stack)
        popped == [fb EXCEPT !.stack = bound.stack, !.frames = Front(@)]
    IN IF ~packages[index].var_mapping.some THEN Abort
       ELSE /\ CommitP(Upd(f, IF popped.frames = << >> THEN Ended(popped)
                                ELSE Unwound(popped)),
                       queue, closures, upvalues, chans,
                       [packages EXCEPT ![index].members = bound.members,
                                        ![index].inits = @ + 1])
            /\ UNCHANGED aborted

RETURN(f) ==
    /\ Doing(f, "RETURN")
    /\ CurInst(f).t0 \in {"Void", "FlagA", "FlagB"}
    /\ IF CurInst(f).t0 = "FlagA" THEN InitPackage(f)
       ELSE IF CurInst(f).t0 = "FlagB" /\ TopFrame(f).defer_stack # << >>
       THEN RunDeferred(f)
       ELSE PopFrame(f)

\* IMPORT: true when the package has still to be initialized
IMPORT(f) ==
    /\ Doing(f, "IMPORT")
    /\ LET fb == Fetched(f)
           pkg == packages[CurInst(f).imm + 1]
       IN CommitF(f, [fb EXCEPT !.stack =
                         Append(@, Val("bool", IF ~inited(pkg) THEN 1 ELSE 0))])

PANIC(f) ==
    /\ Doing(f, "PANIC")
    /\ LET fb == Fetched(f)
       IN CommitF(f, go_panic([fb EXCEPT !.stack = Front(@)], Last(fb.stack)))

\* RECOVER that reads the panic and leaves it pending
RECOVER_peek(f) ==
    /\ Doing(f, "RECOVER")
    /\ LET fb == Fetched(f)
           val == IF fb.panic.set THEN fb.panic.msg ELSE NilV
       IN CommitF(f, [fb EXCEPT !.stack = Append(@, val),
                                !.recover_log = Append(@, val)])

RECOVER(f) ==
    /\ Doing(f, "RECOVER")
    /\ LET fb == Fetched(f)
           val == IF fb.panic.set THEN fb.panic.msg ELSE NilV
       IN CommitF(f, [fb EXCEPT !.panic = NoPanic, !.stack = Append(@, val),
                                !.raised = NoPanic, !.recover_log = Append(@, val)])

\* ------------------------------------------------------------------------
\* Channels: a bounded FIFO with a closed flag, and the value a receive
\* gives once the channel is closed and empty.  History only: sent (the
\* values whose send completed) and rcvd (the values that receives gave).
NewChan(cap, recv_zero) ==
    [buf |-> << >>, cap |-> cap, closed |-> FALSE, recv_zero |-> recv_zero,
     sent |-> << >>, rcvd |-> << >>]

\* Channel: enqueue / dequeue
Enq(chs, c, val) == [chs EXCEPT ![c].buf = Append(@, val), ![c].sent = Append(@, val)]
Deq(chs, c) == [chs EXCEPT ![c].buf = Tail(@)]
\* history: a receive on channel c has given r
Rcvd(chs, c, r) == IF r.ok THEN [chs EXCEPT ![c].rcvd = Append(@, r.v)] ELSE chs

CanSend(c) == chans[c].closed \/ Len(chans[c].buf) < chans[c].cap
CanRecv(c) == chans[c].closed \/ chans[c].buf # << >>

\* Selector: the case can proceed now
CommReady(comm) ==
    IF comm.flag = "FlagA" THEN CanSend(comm.chan) ELSE CanRecv(comm.chan)

\* MAKE of a channel, with the capacity on the stack above the metadata
MAKE(f) ==
    /\ Doing(f, "MAKE")
    /\ CurInst(f).imm = 0
    /\ LET fb == Fetched(f)
           cap == Last(fb.stack).n
       IN /\ Commit(Upd(f, [fb EXCEPT !.stack = Append(DropN(@, 2), ChanV(Len(chans) + 1))]),
                    queue, closures, upvalues, Append(chans, NewChan(cap, IntV(0))))
          /\ UNCHANGED aborted

\* Channel::send / Channel::recv polled once: Err on a closed channel, Ok
\* when there is room, else pending; Some(oldest value), None when closed
\* and empty, else pending
chan_send(c) ==
    IF chans[c].closed THEN "Err"
    ELSE IF Len(chans[c].buf) < chans[c].cap THEN "Ok" ELSE "Pending"

chan_recv(c) ==
    IF chans[c].buf # << >> THEN [state |-> "Some", v |-> Head(chans[c].buf)]
    ELSE IF chans[c].closed THEN [state |-> "None", v |-> NilV]
    ELSE [state |-> "Pending", v |-> NilV]

\* SEND from its await on: the stack borrow is dropped, the send awaited,
\* the borrow taken again, and an error becomes a panic
TrySend(f, fb, c, val) ==
    CASE chan_send(c) = "Err" ->
           CommitF(f, go_panic([fb EXCEPT !.at = "exec", !.pend = NoPend,
                                          !.stack_ref = "main_loop"],
                               StrV(MSG_SEND_CLOSED)))
      [] chan_send(c) = "Ok" ->
           /\ Commit(Upd(f, [fb EXCEPT !.at = "exec", !.pend = NoPend,
                                        !.stack_ref = "main_loop"]), queue,
                     closures, upvalues, Enq(chans, c, val))
           /\ UNCHANGED aborted
      [] OTHER ->
           CommitF(f, [fb EXCEPT !.status = "blocked", !.at = "send",
                                 !.stack_ref = "none",
                                 !.pend = [NoPend EXCEPT !.chan = c, !.val = val]])

\* unwrap_recv_val! taking the absence of a value for a value
unwrap_recv_val_some(c, val) == [v |-> val.v, ok |-> TRUE]

\* unwrap_recv_val!
unwrap_recv_val(c, val) ==
    IF val.state = "Some" THEN [v |-> val.v, ok |-> TRUE]
    ELSE [v |-> chans[c].recv_zero, ok |-> FALSE]

\* a RECV that leaves the value it gives in the channel
TryRecv_keeping(f, fb, c, flag) ==
    LET val == chan_recv(c)
        r == unwrap_recv_val(c, val)
        done == [fb EXCEPT !.at = "exec", !.pend = NoPend, !.stack_ref = "main_loop",
                           !.stack = IF flag = "FlagA"
                                     THEN @ \o << r.v, Val("bool", IF r.ok THEN 1 ELSE 0) >>
                                     ELSE Append(@, r.v)]
    IN IF val.state = "Pending"
       THEN CommitF(f, [fb EXCEPT !.status = "blocked", !.at = "recv",
                                  !.stack_ref = "none",
                                  !.pend = [NoPend EXCEPT !.chan = c, !.flag = flag]])
       ELSE /\ Commit(Upd(f, done), queue, closures, upvalues, Rcvd(chans, c, r))
            /\ UNCHANGED aborted

\* RECV from its await on: the received value is unwrapped and pushed, with
\* ok after it under FlagA
TryRecv(f, fb, c, flag) ==
    LET val == chan_recv(c)
        r == unwrap_recv_val(c, val)
        done == [fb EXCEPT !.at = "exec", !.pend = NoPend, !.stack_ref = "main_loop",
                           !.recv_log = Append(@, [val |-> r.v, ok |-> r.ok,
                                                   closed |-> chans[c].closed]),
                           !.stack = IF flag = "FlagA"
                                     THEN @ \o << r.v, Val("bool", IF r.ok THEN 1 ELSE 0) >>
                                     ELSE Append(@, r.v)]
    IN IF val.state = "Pending"
       THEN CommitF(f, [fb EXCEPT !.status = "blocked", !.at = "recv",
                                  !.stack_ref = "none",
                                  !.pend = [NoPend EXCEPT !.chan = c, !.flag = flag]])
       ELSE /\ Commit(Upd(f, done), queue, closures, upvalues,
                      Rcvd(IF val.state = "Some" THEN Deq(chans, c) ELSE chans, c, r))
            /\ UNCHANGED aborted

SEND(f) ==
    /\ Doing(f, "SEND")
    /\ LET fb == Fetched(f)
       IN TrySend(f, [fb EXCEPT !.stack = DropN(@, 2)],
                  fb.stack[Len(fb.stack) - 1].n, Last(fb.stack))

RECV(f) ==
    /\ Doing(f, "RECV")
    /\ LET fb == Fetched(f)
       IN TryRecv(f, [fb EXCEPT !.stack = Front(@)], Last(fb.stack).n, CurInst(f).t1)

\* the task is polled again after its waker ran
SendRetry(f) ==
    /\ ~aborted
    /\ fibers[f].status = "running" /\ fibers[f].at = "send"
    /\ TrySend(f, fibers[f], fibers[f].pend.chan, fibers[f].pend.val)

RecvRetry(f) ==
    /\ ~aborted
    /\ fibers[f].status = "running" /\ fibers[f].at = "recv"
    /\ TryRecv(f, fibers[f], fibers[f].pend.chan, fibers[f].pend.flag)

\* the channel wakes a task whose operation can now complete
Wake(f) ==
    /\ ~aborted
    /\ fibers[f].status = "blocked"
    /\ CASE fibers[f].at = "send" -> CanSend(fibers[f].pend.chan)
         [] fibers[f].at = "recv" -> CanRecv(fibers[f].pend.chan)
         [] fibers[f].at = "select" ->
               \E i \in DOMAIN fibers[f].pend.comms : CommReady(fibers[f].pend.comms[i])
         [] OTHER -> TRUE
    /\ Commit(Upd(f, [fibers[f] EXCEPT !.status = "ready"]), Append(queue, f),
              closures, upvalues, chans)
    /\ UNCHANGED aborted

CLOSE(f) ==
    /\ Doing(f, "CLOSE")
    /\ LET fb == Fetched(f)
       IN /\ Commit(Upd(f, [fb EXCEPT !.stack = Front(@)]), queue, closures, upvalues,
                    [chans EXCEPT ![Last(fb.stack).n].closed = TRUE])
          /\ UNCHANGED aborted

\* ------------------------------------------------------------------------
\* Select

\* SELECT's comms: the slots begin..end-1 of the code cd taken last first,
\* each popping its operands (a send its value, then its channel; a receive
\* its channel) and keeping the offset of its own slot, none for slot 0.
\* j counts the slots still to take; the result is the comms and the stack.
RECURSIVE SelectComms(_, _, _, _)
SelectComms(cd, begin, j, stack) ==
    IF j = 0 THEN [comms |-> << >>, stack |-> stack]
    ELSE LET i == j - 1
             sel_code == cd[begin + i + 1]
             off == IF i = 0 THEN 0 ELSE sel_code.imm
             flag == sel_code.t0
             comm == IF flag = "FlagA"
                     THEN [flag |-> flag, chan |-> stack[Len(stack) - 1].n,
                           val |-> Last(stack), offset |-> off, slot |-> i]
                     ELSE [flag |-> flag, chan |-> Last(stack).n,
                           val |-> NilV, offset |-> off, slot |-> i]
             rest == SelectComms(cd, begin, j - 1,
                                 DropN(stack, IF flag = "FlagA" THEN 2 ELSE 1))
         IN [comms |-> << comm >> \o rest.comms, stack |-> rest.stack]

\* a SELECT whose cases all continue at the end of its table
Selected_plain(fb, blocks, slot, block_offset, pushes) ==
    LET fr == Last(fb.frames)
        to == offset(fr.pc, (blocks - 1) + (IF slot < 0 THEN block_offset ELSE 0))
    IN [fb EXCEPT !.status = "running", !.at = "exec", !.pend = NoPend,
                  !.stack_ref = "main_loop",
                  !.stack = @ \o pushes,
                  !.frames = SetTop(fb.frames, [fr EXCEPT !.pc = to]),
                  !.select_log = Append(@, [at |-> fr.pc - 1, slot |-> slot, to |-> to])]

\* SELECT after select() gave Ok((i, val)): the pushes of the winning case
\* and the jump to its block; slot and block_offset are those of comms[i]
\* or of the default
Selected(fb, blocks, slot, block_offset, pushes) ==
    LET fr == Last(fb.frames)
        to == offset(fr.pc, (blocks - 1) + block_offset)
    IN [fb EXCEPT !.status = "running", !.at = "exec", !.pend = NoPend,
                  !.stack_ref = "main_loop",
                  !.stack = @ \o pushes,
                  !.frames = SetTop(fb.frames, [fr EXCEPT !.pc = to]),
                  !.select_log = Append(@, [at |-> fr.pc - 1, slot |-> slot, to |-> to])]

\* the await of Selector::select by fiber f, whose state is fb so far, and
\* what SELECT does with its result
SelectAwait(f, fb, comms, blocks, has_default, default_offset) ==
    IF \E i \in DOMAIN comms : CommReady(comms[i])
    THEN \E i \in {j \in DOMAIN comms : CommReady(comms[j])} :
            LET comm == comms[i]
                c == comm.chan
            IN IF comm.flag = "FlagA"
               THEN IF chan_send(c) = "Err"
                    THEN CommitF(f, go_panic([fb EXCEPT !.at = "exec", !.pend = NoPend,
                                                        !.stack_ref = "main_loop"],
                                             StrV(MSG_SEND_CLOSED)))
                    ELSE /\ Commit(Upd(f, Selected(fb, blocks, comm.slot, comm.offset, << >>)),
                                   queue, closures, upvalues, Enq(chans, c, comm.val))
                         /\ UNCHANGED aborted
               ELSE LET r == unwrap_recv_val(c, chan_recv(c))
                        pushes == CASE comm.flag = "FlagC" -> << r.v >>
                                    [] comm.flag = "FlagD" ->
                                         << r.v, Val("bool", IF r.ok THEN 1 ELSE 0) >>
                                    [] OTHER -> << >>
                    IN /\ Commit(Upd(f, Selected(fb, blocks, comm.slot, comm.offset, pushes)),
                                 queue, closures, upvalues,
                                 Rcvd(IF chan_recv(c).state = "Some"
                                      THEN Deq(chans, c) ELSE chans, c, r))
                       /\ UNCHANGED aborted
    ELSE IF has_default
    THEN CommitF(f, Selected(fb, blocks, -1, default_offset, << >>))
    ELSE CommitF(f, [fb EXCEPT !.status = "blocked", !.at = "select",
                               !.stack_ref = "none",
                               !.pend = [NoPend EXCEPT !.comms = comms, !.blocks = blocks]])

\* a SELECT that takes no notice of its default slot
SELECT_waiting(f) ==
    /\ Doing(f, "SELECT")
    /\ LET fb == Fetched(f)
           cd == code(func(TopFrame(f)))
           blocks == CurInst(f).imm
           begin == TopFrame(f).pc
           end_code == cd[begin + blocks]
           has_default == end_code.t0 = "FlagE"
           popped == SelectComms(cd, begin, IF has_default THEN blocks - 1 ELSE blocks,
                                 fb.stack)
       IN SelectAwait(f, [fb EXCEPT !.stack = popped.stack], popped.comms, blocks,
                      FALSE, end_code.imm)

SELECT(f) ==
    /\ Doing(f, "SELECT")
    /\ LET fb == Fetched(f)
           cd == code(func(TopFrame(f)))
           blocks == CurInst(f).imm
           begin == TopFrame(f).pc
           end_code == cd[begin + blocks]
           has_default == end_code.t0 = "FlagE"
           popped == SelectComms(cd, begin, IF has_default THEN blocks - 1 ELSE blocks,
                                 fb.stack)
       IN SelectAwait(f, [fb EXCEPT !.stack = popped.stack], popped.comms, blocks,
                      has_default, end_code.imm)

\* the task is polled again after a channel of the select woke it
SelectRetry(f) ==
    /\ ~aborted
    /\ fibers[f].status = "running" /\ fibers[f].at = "select"
    /\ SelectAwait(f, fibers[f], fibers[f].pend.comms, fibers[f].pend.blocks, FALSE, 0)

\* ------------------------------------------------------------------------
Step(f) ==
    \/ FirstYield(f) \/ Start(f) \/ QuantumYield(f) \/ NewQuantum(f)
    \/ PUSH_IMM(f) \/ PUSH_CONST(f) \/ POP(f) \/ LOAD_LOCAL(f) \/ STORE_LOCAL(f)
    \/ JUMP(f) \/ LOAD_UPVALUE(f) \/ STORE_UPVALUE(f) \/ REF_UPVALUE(f)
    \/ DEREF(f) \/ STORE_DEREF(f) \/ LITERAL(f) \/ PRE_CALL(f) \/ CALL(f)
    \/ RETURN(f) \/ PANIC(f) \/ RECOVER(f) \/ MAKE(f) \/ SEND(f) \/ RECV(f)
    \/ SendRetry(f) \/ RecvRetry(f) \/ Wake(f) \/ CLOSE(f)
    \/ FFI(f) \/ BIND_INTERFACE_METHOD(f) \/ FfiRetry(f)
    \/ JUMP_IF_NOT(f) \/ ADD(f) \/ LSS(f) \/ SELECT(f) \/ SelectRetry(f)
    \/ CAST(f) \/ TYPE_ASSERT(f) \/ IMPORT(f)

Next == Tick \/ \E f \in FiberIds : Step(f)

Spec == Init /\ [][Next]_vars

\* GosVM::run keeps calling try_tick while a task is runnable, and a polled
\* task runs until its next await: no enabled step is put off forever.
FairSpec == Spec /\ WF_vars(Next)

\* ------------------------------------------------------------------------
\* Value-level operations of objects.rs, run on their own: the objects are
\* in objs, no program is loaded and no fiber exists.

\* SliceObj: begin, end and cap_end index the backing vector vec
\* (Rc<RefCell<GosVec>>, here the id of a vector of objs.vecs)
SliceObj_new(len, cap, vec) ==
    [begin |-> 0, end |-> len, cap_end |-> cap, vec |-> vec]

SliceObj_len(s) == s.end - s.begin

\* usize arithmetic: a negative number stands for the underflow of the
\* subtraction (a panic in a debug build, a wrapped value in a release one)
SliceObj_cap(s) == s.cap_end - s.begin

SliceObj_slice(s, begin, end, max) ==
    LET self_len == SliceObj_len(s) + 1
        bi == s.begin + begin
        ei == s.begin + ((self_len + end) % self_len)
        cap == IF max < 0 THEN s.cap_end ELSE max
    IN [begin |-> s.begin + bi, end |-> s.begin + ei, cap_end |-> cap, vec |-> s.vec]

\* SliceObj::slice, its loop: the backing vector is extended with nil (-1)
\* up to the new cap_end
more_cap(data, cap) ==
    data \o [n \in 1..(IF cap > Len(data) THEN cap - Len(data) ELSE 0) |-> -1]

\* StringObj: the bytes begin..end of data (an Rc<String>)
StringObj_with_str(s) == [data |-> s, begin |-> 0, end |-> Len(s)]

\* &data[begin..end]
as_str(str) == SubSeq(str.data, str.begin + 1, str.end)

StringObj_len(str) == str.end - str.begin

StringObj_slice(str, begin, end) ==
    LET self_end == StringObj_len(str) + 1
        bi == begin
        ei == (self_end + end) % self_end
    IN [data |-> str.data, begin |-> bi, end |-> ei]

\* Map keys.  A value is Val(t, n); n is the number itself ("int") or the
\* id of the object: a StringObj of objs.strs ("str"), the Rc of a struct
\* in objs.structs ("struct"), a PointerObj of objs.ptrs ("ptr"), an
\* InterfaceObj of objs.ifaces ("iface").  What is written to the Hasher
\* is a sequence of words [w, v]: a number, a byte or an address.
Word(w, v) == [w |-> w, v |-> v]

\* unreachable!() //false
MapObj_eq_false(x, y) == "false"

MapObj_eq(x, y) == "unreachable"

\* unreachable!() //false
SliceObj_eq_false(x, y) == "false"

SliceObj_eq(x, y) == "unreachable"

RECURSIVE GosValue_eq(_, _)
RECURSIVE GosValue_hash(_)

StringObj_eq(x, y) == as_str(x) = as_str(y)

StructObj_eq(x, y) ==
    \A i \in DOMAIN x.fields : GosValue_eq(x.fields[i], y.fields[i])

RECURSIVE HashAll(_)
HashAll(vals) ==
    IF vals = << >> THEN << >> ELSE GosValue_hash(Head(vals)) \o HashAll(Tail(vals))

StructObj_hash(x) == HashAll(x.fields)

\* Rc<RefCell<UpValueState>> == : the states are compared, and two Open
\* states are equal when the index of their ValueDesc is
UpValue_eq(x, y) ==
    LET a == objs.cells[x]
        b == objs.cells[y]
    IN IF a.open # b.open THEN FALSE
       ELSE IF a.open THEN a.index = b.index
       ELSE GosValue_eq(a.val, b.val)

UpValue_hash(x) ==
    IF objs.cells[x].open THEN << Word("num", objs.cells[x].index) >>
    ELSE << Word("cell", x) >>

\* Rc<(RefCell<StructObj>, RCount)> == : the pointees are compared
PointerObj_eq(p, q) ==
    CASE p.variant = "UpVal" /\ q.variant = "UpVal" -> UpValue_eq(p.to, q.to)
      [] p.variant = "Struct" /\ q.variant = "Struct" ->
            \/ p.to = q.to
            \/ /\ StructObj_eq(objs.structs[p.to], objs.structs[q.to])
               /\ objs.structs[p.to].rc = objs.structs[q.to].rc
      [] OTHER -> FALSE

PointerObj_hash(p) ==
    IF p.variant = "UpVal" THEN UpValue_hash(p.to) ELSE << Word("struct", p.to) >>

InterfaceObj_eq(x, y) == GosValue_eq(x, y)

InterfaceObj_hash(x) == GosValue_hash(x)

GosValue_eq(a, b) ==
    IF a.t # b.t THEN FALSE
    ELSE CASE a.t = "str" -> StringObj_eq(objs.strs[a.n].obj, objs.strs[b.n].obj)
           [] a.t = "struct" -> StructObj_eq(objs.structs[a.n], objs.structs[b.n])
           [] a.t = "ptr" -> PointerObj_eq(objs.ptrs[a.n], objs.ptrs[b.n])
           [] a.t = "iface" -> InterfaceObj_eq(objs.ifaces[a.n], objs.ifaces[b.n])
           [] OTHER -> a.n = b.n

GosValue_hash(a) ==
    CASE a.t = "str" -> [i \in DOMAIN as_str(objs.strs[a.n].obj) |->
                            Word("byte", as_str(objs.strs[a.n].obj)[i])]
      [] a.t = "struct" -> StructObj_hash(objs.structs[a.n])
      [] a.t = "ptr" -> PointerObj_hash(objs.ptrs[a.n])
      [] a.t = "iface" -> InterfaceObj_hash(objs.ifaces[a.n])
      [] OTHER -> << Word("num", a.n) >>

\* HashMap: the entries whose key has the hash of key and is equal to it
Found(key) ==
    {i \in DOMAIN objs.map : /\ objs.map[i].hash = GosValue_hash(key)
                             /\ GosValue_eq(objs.map[i].key, key)}

\* MapObj::insert: the value of an entry found is replaced, its key is kept
MapObj_insert(key, val) ==
    IF Found(key) # {}
    THEN [i \in DOMAIN objs.map |->
            IF i \in Found(key) THEN [objs.map[i] EXCEPT !.val = val] ELSE objs.map[i]]
    ELSE Append(objs.map, [key |-> key, hash |-> GosValue_hash(key), val |-> val])

\* MapObj::get: the value found, or default_val (0)
MapObj_get(key) ==
    IF Found(key) # {} THEN objs.map[CHOOSE i \in Found(key) : TRUE].val ELSE 0

\* GosValue == for the operands of a comparison: "true", "false", or
\* "unreachable" when the code reaches unreachable!()
GosValue_cmp(a, b) ==
    CASE a.t = "slice" /\ b.t = "slice" ->
            SliceObj_eq(objs.slices[a.n].obj, objs.slices[b.n].obj)
      [] a.t = "map" /\ b.t = "map" -> MapObj_eq(objs.maps[a.n], objs.maps[b.n])
      [] OTHER -> IF GosValue_eq(a, b) THEN "true" ELSE "false"

ObjInit ==
    /\ entry = 0
    /\ functions = << >>
    /\ fibers = [f \in FiberIds |-> NoFiber]
    /\ queue = << >>
    /\ closures = << >>
    /\ upvalues = << >>
    /\ chans = << >>
    /\ aborted = FALSE
    /\ packages = << >>
    /\ \E kind \in ObjKinds : objs = [NoObjs EXCEPT !.kind = kind]

\* GosValue::slice_with_val: a new slice that holds the values v
slice_with_val(v) == [t |-> "slice", n |-> Len(v), vals |-> v]

\* Stack::pack_variadic: the values from index on leave the stack and come
\* back as one slice
pack_variadic(stack, index) ==
    IF index <= Len(stack)
    THEN Append(SubSeq(stack, 1, index),
                slice_with_val(SubSeq(stack, index + 1, Len(stack))))
    ELSE stack

\* the packing index of CALL with t1 = FlagA, from the staged frame and the
\* signature of the closure
pack_index(nframe) ==
    nframe.stack_base + nframe.sig.params
        + (IF nframe.is_ffi THEN 0 ELSE nframe.sig.results) - 1

\* PRE_CALL of a closure whose signature has a variadic parameter, with
\* `base` values of the caller on the stack: the staged frame starts at the
\* stack's length; a Go closure gets its ret_zeros and its receiver pushed,
\* an FFI closure nothing. sig is the SigMetadata of cls.meta: recv apart
\* from params, as FunctionVal::new reads it.
PreCall(base, results, params, recv, is_ffi) ==
    /\ objs.kind = "pack" /\ objs.ops = << >>
    /\ is_ffi => ~recv
    /\ LET stack == [i \in 1..base |-> IntV(1)]
           next_frame == [op |-> "PRE_CALL", stack_base |-> Len(stack),
                          sig |-> [recv |-> recv, params |-> params,
                                   results |-> results],
                          is_ffi |-> is_ffi]
       IN objs' = [objs EXCEPT
                     !.stack = stack
                        \o (IF is_ffi THEN << >> ELSE [i \in 1..results |-> IntV(0)])
                        \o (IF recv THEN << Val("pointer", 0) >> ELSE << >>),
                     !.ops = << next_frame >>]
    /\ UNCHANGED vm_vars

\* the values pushed since PRE_CALL: the receiver, if any, and the arguments
Pushed(o) ==
    Len(o.stack) - o.ops[1].stack_base
        - (IF o.ops[1].is_ffi THEN 0 ELSE o.ops[1].sig.results)

\* the caller pushes one argument
PushArg(n) ==
    /\ objs.kind = "pack" /\ Len(objs.ops) = 1
    /\ Pushed(objs) - (IF objs.ops[1].sig.recv THEN 1 ELSE 0)
          < objs.ops[1].sig.params - 1 + MaxVariadic
    /\ objs' = [objs EXCEPT !.stack = Append(@, IntV(n))]
    /\ UNCHANGED vm_vars

\* CALL with t1 = FlagA, once the fixed arguments at least are pushed: the
\* packing, which comes before the frame is pushed / spawned / deferred
CallPack ==
    /\ objs.kind = "pack" /\ Len(objs.ops) = 1
    /\ Pushed(objs) - (IF objs.ops[1].sig.recv THEN 1 ELSE 0)
          >= objs.ops[1].sig.params - 1
    /\ LET nframe == objs.ops[1]
           index == pack_index(nframe)
       IN objs' = [objs EXCEPT
                     !.stack = pack_variadic(objs.stack, index),
                     !.ops = Append(@, [op |-> "CALL", index |-> index])]
    /\ UNCHANGED vm_vars

\* make([]T, len, cap): a slice over a fresh vector of cap default values
NewSlice(len, cap) ==
    /\ \/ objs.kind = "slice"
       \/ objs.kind = "backing" /\ cap <= MaxBack
       \/ objs.kind = "oob" /\ objs.slices = << >>
    /\ Len(objs.slices) < MaxSlices
    /\ objs' = [objs EXCEPT
                  !.vecs = Append(@, [n \in 1..cap |-> 0]),
                  !.slices = Append(@, [obj |-> SliceObj_new(len, cap, Len(objs.vecs) + 1),
                                        made |-> [src |-> 0, i |-> 0, j |-> len,
                                                  max |-> cap]])]
    /\ UNCHANGED vm_vars

\* SLICE (max = -1) and SLICE_FULL on the slice k, with indices in range:
\* 0 <= begin <= end <= len and, for SLICE_FULL, end <= max <= cap
Slicing(k, begin, end, max) ==
    /\ objs.kind \in {"slice", "backing"}
    /\ Len(objs.slices) < MaxSlices
    /\ LET sl == objs.slices[k].obj
           result == SliceObj_slice(sl, begin, end, max)
       IN /\ begin <= end /\ end <= SliceObj_len(sl)
          /\ max >= 0 => end <= max /\ max <= SliceObj_cap(sl)
          /\ objs' = [objs EXCEPT
                        !.vecs[sl.vec] = more_cap(@, result.cap_end),
                        !.slices = Append(@, [obj |-> result,
                                              made |-> [src |-> k, i |-> begin, j |-> end,
                                                        max |-> max]])]
    /\ UNCHANGED vm_vars

\* SliceObj::with_data: a slice over a vector of its own that holds val
SliceObj_with_data(val, vec) ==
    [begin |-> 0, end |-> Len(val), cap_end |-> Len(val), vec |-> vec]

\* SliceObj::with_array: a slice that shares the vector of an array of
\* length len
SliceObj_with_array(len, begin, end, vec) ==
    LET self_end == len + 1
        bi == begin
        ei == (self_end + end) % self_end
    IN [begin |-> bi, end |-> ei, cap_end |-> bi + len, vec |-> vec]

\* SliceObj::append, on the clone of s that APPEND makes: the new slice
\* object and the new content of the backing vector it shares with s
SliceObj_append(s, data, other) ==
    LET new_end == s.end + Len(other)
        after_end_len == Len(data) - s.end
    IN [obj |-> [s EXCEPT !.end = new_end,
                          !.cap_end = IF @ < new_end THEN new_end ELSE @],
        data |-> IF after_end_len <= Len(other)
                 THEN SubSeq(data, 1, s.end) \o other
                 ELSE [i \in DOMAIN data |->
                         IF i > s.end /\ i <= new_end THEN other[i - s.end] ELSE data[i]]]

\* a slice that an operation other than a slicing of a slice made
Made(obj) == [obj |-> obj, made |-> [src |-> 0, i |-> 0, j |-> 0, max |-> 0]]

\* LITERAL of a slice with len elements
SliceLit(len) ==
    /\ objs.kind = "backing" /\ len <= MaxBack
    /\ Len(objs.slices) < MaxSlices
    /\ LET val == [n \in 1..len |-> n]
       IN objs' = [objs EXCEPT
                     !.vecs = Append(@, val),
                     !.slices = Append(@, Made(SliceObj_with_data(val, Len(objs.vecs) + 1)))]
    /\ UNCHANGED vm_vars

\* SLICE of an array of length len, with indices in range: 0 <= begin <=
\* end <= len, or end = -1 for the length
SliceArray(len, begin, end) ==
    /\ objs.kind = "backing" /\ len <= MaxBack
    /\ Len(objs.slices) < MaxSlices
    /\ begin <= len /\ (end = -1 \/ (begin <= end /\ end <= len))
    /\ objs' = [objs EXCEPT
                  !.vecs = Append(@, [n \in 1..len |-> 0]),
                  !.slices = Append(@, Made(SliceObj_with_array(len, begin, end,
                                                                Len(objs.vecs) + 1)))]
    /\ UNCHANGED vm_vars

\* APPEND of the slice b to the slice a: a.clone(), then append of b's
\* elements.  b's vector is borrowed while a's is borrowed mutably (a Rust
\* panic when they are one vector), and data[end..] is out of range when
\* a's end lies beyond the vector.
AppendSlice(a, b) ==
    /\ objs.kind = "backing"
    /\ Len(objs.slices) < MaxSlices
    /\ LET sa == objs.slices[a].obj
           sb == objs.slices[b].obj
           data == objs.vecs[sa.vec]
           ok == /\ sa.vec # sb.vec
                 /\ sa.end <= Len(data)
                 /\ sb.begin <= sb.end /\ sb.end <= Len(objs.vecs[sb.vec])
           r == SliceObj_append(sa, data, SubSeq(objs.vecs[sb.vec], sb.begin + 1, sb.end))
       IN /\ objs' = IF ok
                     THEN [objs EXCEPT !.vecs[sa.vec] = r.data,
                                       !.slices = Append(@, Made(r.obj))]
                     ELSE objs
          /\ aborted' = ~ok
    /\ UNCHANGED << entry, functions, fibers, queue, closures, upvalues, chans,
                    packages >>

\* a string constant
NewStr(s) ==
    /\ objs.kind = "str"
    /\ Len(objs.strs) < MaxStrs
    /\ objs' = [objs EXCEPT
                  !.strs = Append(@, [obj |-> StringObj_with_str(s),
                                      made |-> [src |-> 0, b |-> 0, e |-> -1]])]
    /\ UNCHANGED vm_vars

\* SLICE on the string k, with indices in range: 0 <= begin <= end <= len,
\* or end = -1 for s[begin:]
StrSlicing(k, begin, end) ==
    /\ objs.kind = "str"
    /\ Len(objs.strs) < MaxStrs
    /\ LET str == objs.strs[k].obj
       IN /\ begin <= (IF end = -1 THEN StringObj_len(str) ELSE end)
          /\ end <= StringObj_len(str)
          /\ objs' = [objs EXCEPT
                        !.strs = Append(@, [obj |-> StringObj_slice(str, begin, end),
                                            made |-> [src |-> k, b |-> begin, e |-> end]])]
    /\ UNCHANGED vm_vars

\* a struct literal S{a, "x"} (ref = FALSE) or &S{a, "x"} (ref = TRUE): a new
\* string, a new struct and, for &, a new pointer to it
StructLit(ref, a) ==
    /\ objs.kind = "key"
    /\ Len(objs.keys) < MaxKeys
    /\ LET str == Len(objs.strs) + 1
           st == Len(objs.structs) + 1
           o == [objs EXCEPT
                   !.strs = Append(@, [obj |-> StringObj_with_str(X),
                                       made |-> [src |-> 0, b |-> 0, e |-> -1]]),
                   !.structs = Append(@, [fields |-> << IntV(a), Val("str", str) >>,
                                          rc |-> 0])]
       IN objs' = IF ref
                  THEN [o EXCEPT !.ptrs = Append(@, [variant |-> "Struct", to |-> st]),
                                 !.keys = Append(@, Val("ptr", Len(objs.ptrs) + 1))]
                  ELSE [o EXCEPT !.keys = Append(@, Val("struct", st))]
    /\ UNCHANGED vm_vars

\* a pointer to a captured variable: a new upvalue, Open on the slot index
\* of a live frame or Closed on the value a
NewUpVal(open, a) ==
    /\ objs.kind = "key"
    /\ Len(objs.keys) < MaxKeys
    /\ objs' = [objs EXCEPT
                  !.cells = Append(@, [open |-> open, index |-> IF open THEN a ELSE 0,
                                       val |-> IF open THEN NilV ELSE IntV(a)]),
                  !.ptrs = Append(@, [variant |-> "UpVal", to |-> Len(objs.cells) + 1]),
                  !.keys = Append(@, Val("ptr", Len(objs.ptrs) + 1))]
    /\ UNCHANGED vm_vars

\* the key i converted to an interface value
NewIface(i) ==
    /\ objs.kind = "key"
    /\ Len(objs.keys) < MaxKeys
    /\ objs.keys[i].t # "iface"
    /\ objs' = [objs EXCEPT !.ifaces = Append(@, objs.keys[i]),
                            !.keys = Append(@, Val("iface", Len(objs.ifaces) + 1))]
    /\ UNCHANGED vm_vars

\* m[key i] = val
MapInsert(i, val) ==
    /\ objs.kind = "key"
    /\ objs' = [objs EXCEPT !.map = MapObj_insert(objs.keys[i], val), !.got = << >>]
    /\ UNCHANGED vm_vars

\* m[key i]
MapGet(i) ==
    /\ objs.kind = "key"
    /\ objs' = [objs EXCEPT !.got = << [key |-> objs.keys[i],
                                        val |-> MapObj_get(objs.keys[i])] >>]
    /\ UNCHANGED vm_vars

\* MAKE of an empty slice or map, pushed on the operand stack (a run of
\* ObjSpec makes one comparison)
MakeRef(t) ==
    /\ objs.kind = "cmp" /\ ~aborted /\ objs.cmp = << >>
    /\ Len(objs.stack) < 2
    /\ objs' = IF t = "slice"
               THEN [objs EXCEPT
                       !.vecs = Append(@, << >>),
                       !.slices = Append(@, [obj |-> SliceObj_new(0, 0, Len(objs.vecs) + 1),
                                             made |-> [src |-> 0, i |-> 0, j |-> 0,
                                                       max |-> 0]]),
                       !.stack = Append(@, Val("slice", Len(objs.slices) + 1))]
               ELSE [objs EXCEPT
                       !.maps = Append(@, [default_val |-> IntV(0), map |-> << >>]),
                       !.stack = Append(@, Val("map", Len(objs.maps) + 1))]
    /\ UNCHANGED vm_vars

\* a number, or the value on top once more (the same object), pushed
PushVal(v) ==
    /\ objs.kind = "cmp" /\ ~aborted /\ objs.cmp = << >>
    /\ Len(objs.stack) < 2
    /\ objs' = [objs EXCEPT !.stack = Append(@, v)]
    /\ UNCHANGED vm_vars

\* EQL (neq = FALSE) and NEQ (neq = TRUE): Stack::compare_eql / compare_neq
\* on two operands of one type; an unreachable!() ends the VM with the
\* operands popped and nothing pushed
Compare(neq) ==
    /\ objs.kind = "cmp" /\ ~aborted /\ objs.cmp = << >>
    /\ Len(objs.stack) = 2
    /\ objs.stack[1].t = objs.stack[2].t
    /\ LET a == objs.stack[1]
           b == objs.stack[2]
           eq == IF a.t = "int" THEN (IF a.n = b.n THEN "true" ELSE "false")
                 ELSE GosValue_cmp(a, b)
           popped == [objs EXCEPT !.cmp = Append(@, [a |-> a, b |-> b, eq |-> eq]),
                                  !.stack = << >>]
       IN IF eq = "unreachable"
          THEN /\ objs' = popped
               /\ aborted' = TRUE
               /\ UNCHANGED << entry, functions, fibers, queue, closures, upvalues, chans,
                               packages >>
          ELSE /\ objs' = [popped EXCEPT !.stack =
                             << Val("bool", IF (eq = "true") # neq THEN 1 ELSE 0) >>]
               /\ UNCHANGED vm_vars

\* what a value-level operation came to: outcome is "done", "go_panic"
\* (go_panic_str! was raised) or "abort" (a Rust panic)
Outcome(op, k, i, j, max, outcome) ==
    [op |-> op, k |-> k, i |-> i, j |-> j, max |-> max, outcome |-> outcome]

\* Arrays and structs: objs.heap holds the objects (ArrayObj.vec, StructObj
\* .fields), a value Val("array", id) or Val("struct", id) is an Rc of one.
IsAgg(v) == v.t \in {"array", "struct"}

\* LITERAL of an aggregate of the given shape around the int n: the value and
\* the heap with its new objects
RECURSIVE Literal(_, _, _)
Literal(shape, n, heap) ==
    IF shape = << >> THEN [v |-> IntV(n), heap |-> heap]
    ELSE LET inner == Literal(Tail(shape), n, heap)
         IN [v |-> Val(Head(shape), Len(inner.heap) + 1),
             heap |-> Append(inner.heap, << inner.v >>)]

\* GosValue::copy_semantic: arrays and structs are copied deeply, everything
\* else is cloned
RECURSIVE copy_semantic(_, _)
copy_semantic(v, heap) ==
    IF ~IsAgg(v) THEN [v |-> v, heap |-> heap]
    ELSE LET inner == copy_semantic(heap[v.n][1], heap)
         IN [v |-> Val(v.t, Len(inner.heap) + 1),
             heap |-> Append(inner.heap, << inner.v >>)]

\* Stack::store_val with a negative rhs index and a type that is not
\* copyable: read_non_copyable, the copy_semantic of the rhs
store_val(rhs, heap) == copy_semantic(rhs, heap)

\* ArrayObj::set_from: the vector becomes a clone of the other vector, each
\* element cloned (an Rc for an array or a struct)
set_from(self, other, heap) == [heap EXCEPT ![self] = heap[other]]

\* Stack::store_to_pointer through a pointer to the whole value p
store_to_pointer(p, rhs, heap) ==
    IF p.t = "struct"
    THEN LET val == copy_semantic(rhs, heap)
         IN [val.heap EXCEPT ![p.n] = val.heap[val.v.n]]
    ELSE set_from(p.n, rhs.n, heap)

\* a local of aggregate type is set to a literal
NewLit(shape, n) ==
    /\ objs.kind = "copy" /\ objs.ops = << >>
    /\ Len(objs.slots) < 2
    /\ objs.slots # << >> => shape = objs.slots[1].shape
    /\ LET lit == Literal(shape, n, objs.heap)
       IN objs' = [objs EXCEPT !.heap = lit.heap,
                               !.slots = Append(@, [v |-> lit.v, shape |-> shape])]
    /\ UNCHANGED vm_vars

\* STORE_LOCAL: local 2 = local 1
StoreLocal ==
    /\ objs.kind = "copy" /\ objs.ops = << >> /\ Len(objs.slots) = 2
    /\ LET val == store_val(objs.slots[1].v, objs.heap)
       IN objs' = [objs EXCEPT !.heap = val.heap, !.slots[2].v = val.v,
                               !.ops = << Outcome("STORE_LOCAL", 0, 0, 0, 0, "done") >>]
    /\ UNCHANGED vm_vars

\* STORE_INDEX / STORE_FIELD, and STORE_DEREF through a pointer to an element
\* or a field: the element of local 2 = the element of local 1
StoreElem ==
    /\ objs.kind = "copy" /\ objs.ops = << >> /\ Len(objs.slots) = 2
    /\ LET val == store_val(objs.heap[objs.slots[1].v.n][1], objs.heap)
       IN objs' = [objs EXCEPT !.heap = [val.heap EXCEPT ![objs.slots[2].v.n] = << val.v >>],
                               !.ops = << Outcome("STORE_ELEM", 0, 0, 0, 0, "done") >>]
    /\ UNCHANGED vm_vars

\* STORE_DEREF through a pointer to local 2 as a whole: *p = local 1
StoreDeref ==
    /\ objs.kind = "copy" /\ objs.ops = << >> /\ Len(objs.slots) = 2
    /\ objs' = [objs EXCEPT !.heap = store_to_pointer(objs.slots[2].v, objs.slots[1].v,
                                                      objs.heap),
                            !.ops = << Outcome("STORE_DEREF", 0, 0, 0, 0, "done") >>]
    /\ UNCHANGED vm_vars

\* GosValue::Named(Box<(GosValue, Meta)>): the underlying value and the
\* metadata of the named type
NamedV(under, meta) == [t |-> "named", n |-> under.n, ut |-> under.t, meta |-> meta]

\* Stack::unwrap_named: slot i is set to the underlying value
unwrap_named(stack, i) == [stack EXCEPT ![i + 1] = Val(stack[i + 1].ut, stack[i + 1].n)]

\* stack_binary_op! with binary_op_add
binary_op_add(stack) ==
    Append(DropN(stack, 2), IntV(stack[Len(stack) - 1].n + Last(stack).n))

\* Stack::wrap_restore_named: the Named in slot i gets the value; a slot that
\* holds no Named is unreachable!()
wrap_restore_named(stack, i) ==
    IF stack[i + 1].t = "named"
    THEN [trap |-> FALSE, stack |-> [stack EXCEPT ![i + 1].n = stack[i + 1].n]]
    ELSE [trap |-> TRUE, stack |-> stack]

\* Stack::add, ValueType::Named
Stack_add(stack) ==
    LET unwrapped == unwrap_named(unwrap_named(stack, Len(stack) - 2), Len(stack) - 1)
        added == binary_op_add(unwrapped)
    IN wrap_restore_named(added, Len(added) - 1)

\* Stack::read_non_copyable_ops, ValueType::Named, of lhs and the Named on
\* the top of the stack: ADD builds a Named with the metadata of lhs, SHL
\* reads the top with get_c, which panics on a value that is not copyable
read_non_copyable_ops(lhs, stack, op) ==
    IF op = "ADD"
    THEN [trap |-> FALSE, v |-> NamedV(IntV(lhs.n + Last(stack).n), lhs.meta)]
    ELSE [trap |-> TRUE, v |-> lhs]

\* a value of a named type with underlying type int is pushed
PushNamed(n, meta) ==
    /\ objs.kind = "named" /\ objs.ops = << >>
    /\ Len(objs.stack) < 2
    /\ objs' = [objs EXCEPT !.stack = Append(@, NamedV(IntV(n), meta))]
    /\ UNCHANGED vm_vars

\* ADD with t0 = Named on the two values of the stack
AddNamed ==
    /\ objs.kind = "named" /\ objs.ops = << >>
    /\ Len(objs.stack) = 2
    /\ LET r == Stack_add(objs.stack)
       IN /\ objs' = [objs EXCEPT
                        !.stack = r.stack,
                        !.ops = << Outcome("ADD", objs.stack[1].meta, objs.stack[1].n,
                                           objs.stack[2].n, 0,
                                           IF r.trap THEN "abort" ELSE "done") >>]
          /\ aborted' = r.trap
    /\ UNCHANGED << entry, functions, fibers, queue, closures, upvalues, chans,
                               packages >>

\* STORE_LOCAL with a rhs index that encodes op (x op= y): slot 0 is the
\* local, the top of the stack the right operand
StoreNamed(op) ==
    /\ objs.kind = "named" /\ objs.ops = << >>
    /\ Len(objs.stack) = 2
    /\ LET r == read_non_copyable_ops(objs.stack[1], objs.stack, op)
       IN /\ objs' = [objs EXCEPT
                        !.stack[1] = r.v,
                        !.ops = << Outcome(op, objs.stack[1].meta, objs.stack[1].n,
                                           objs.stack[2].n, 1,
                                           IF r.trap THEN "abort" ELSE "done") >>]
          /\ aborted' = r.trap
    /\ UNCHANGED << entry, functions, fibers, queue, closures, upvalues, chans,
                               packages >>

\* Binding4Runtime::Struct(func, ptr_recv, indices) and Iface(i, indices);
\* indices << >> stands for None
RowStruct(fkey, ptr_recv, indices) ==
    [kind |-> "Struct", func |-> fkey, ptr_recv |-> ptr_recv, i |-> 0, indices |-> indices]
RowIface(i, indices) ==
    [kind |-> "Iface", func |-> 0, ptr_recv |-> FALSE, i |-> i, indices |-> indices]

\* deref_value (PointerObj::deref): the value of the closed cell, or the
\* struct itself
deref_value(v, o) ==
    IF o.ptrs[v.n].variant = "UpVal" THEN o.cells[o.ptrs[v.n].to].val
    ELSE Val("struct", o.ptrs[v.n].to)

\* a cast that hands the receiver on as it is
cast_receiver_unchanged(receiver, b1, o) == [v |-> receiver, o |-> o]

\* cast_receiver: the receiver as a pointer (b1) or as a value
cast_receiver(receiver, b1, o) ==
    IF (receiver.t = "ptr") = b1 THEN [v |-> receiver, o |-> o]
    ELSE IF b1
    THEN [v |-> Val("ptr", Len(o.ptrs) + 1),
          o |-> [o EXCEPT !.cells = Append(@, [open |-> FALSE, index |-> 0,
                                               val |-> receiver]),
                          !.ptrs = Append(@, [variant |-> "UpVal",
                                              to |-> Len(o.cells) + 1])]]
    ELSE [v |-> deref_value(receiver, o), o |-> o]

\* StructObj::get_embeded
RECURSIVE get_embeded(_, _, _)
get_embeded(struct_, indices, o) ==
    IF indices = << >> THEN struct_
    ELSE get_embeded(o.heap[struct_.n][Head(indices) + 1], Tail(indices), o)

\* bind_method on InterfaceObj::Gos: the closure (func, recv) and the objects
RECURSIVE bind_method(_, _, _)
bind_method(iface, index, o) ==
    LET binding == iface.rows[index + 1]
        obj == get_embeded(iface.under, binding.indices, o)
    IN IF binding.kind = "Struct"
       THEN LET copied == copy_semantic(obj, o.heap)
                cast == cast_receiver(copied.v, binding.ptr_recv,
                                      [o EXCEPT !.heap = copied.heap])
            IN [cls |-> [func |-> binding.func, recv |-> cast.v], o |-> cast.o]
       ELSE bind_method(o.ifaces[obj.n], binding.i, o)

\* the method M of the struct B{n} (function 1; function 2 is another
\* method) behind an interface: the underlying value is B or &B (ptr), or a
\* struct that embeds B or *B (embedded); the interface itself may be the
\* underlying value of another interface, or its embedded field (nested)
MakeIface(ptr, ptr_recv, embedded, nested, n) ==
    /\ objs.kind = "bind" /\ objs.slots = << >>
    /\ embedded # "none" => ~ptr
    /\ LET B == 1
           heap1 == << << IntV(n) >> >>
           ptrs1 == IF ptr \/ embedded = "pointer"
                    THEN << [variant |-> "Struct", to |-> B] >> ELSE << >>
           recv == IF ptrs1 # << >> THEN Val("ptr", 1) ELSE Val("struct", B)
           heap2 == IF embedded = "none" THEN heap1 ELSE Append(heap1, << recv >>)
           under == IF embedded = "none" THEN recv ELSE Val("struct", 2)
           rows == << RowStruct(2, ~ptr_recv, << >>),
                      RowStruct(1, ptr_recv, IF embedded = "none" THEN << >> ELSE << 0 >>) >>
           inner == [under |-> under, rows |-> rows]
           heap3 == IF nested = "field" THEN Append(heap2, << Val("iface", 1) >>)
                    ELSE heap2
           outer == [under |-> IF nested = "field" THEN Val("struct", Len(heap3))
                               ELSE Val("iface", 1),
                     rows |-> << RowIface(1, IF nested = "field" THEN << 0 >> ELSE << >>) >>]
       IN objs' = [objs EXCEPT
                     !.heap = heap3, !.ptrs = ptrs1,
                     !.ifaces = IF nested = "none" THEN << inner >> ELSE << inner, outer >>,
                     !.slots = << [v |-> Val("iface", IF nested = "none" THEN 1 ELSE 2),
                                   shape |-> [ptr |-> ptrs1 # << >>, ptr_recv |-> ptr_recv,
                                              nested |-> nested, n |-> n,
                                              index |-> IF nested = "none" THEN 1 ELSE 0]] >>]
    /\ UNCHANGED vm_vars

\* BIND_INTERFACE_METHOD on the interface value made
Bind ==
    /\ objs.kind = "bind" /\ objs.slots # << >> /\ objs.got = << >>
    /\ LET r == bind_method(objs.ifaces[objs.slots[1].v.n], objs.slots[1].shape.index, objs)
       IN objs' = [r.o EXCEPT !.got = << r.cls >>]
    /\ UNCHANGED vm_vars

\* SliceRef::get: the place in the backing vector of the cell i of the view
\* (0: None, the vector ends before it)
SliceRef_get(s, i) ==
    IF s.begin + i < Len(objs.vecs[s.vec]) THEN s.begin + i + 1 ELSE 0

\* SLICE (max = -1) and SLICE_FULL on the slice k with any indices: max is
\* checked against the capacity, begin and end are not checked; the slicing
\* is done and its result pushed also after go_panic_str!
SliceAny(k, begin, end, max) ==
    /\ objs.kind = "oob" /\ objs.ops = << >>
    /\ LET sl == objs.slices[k].obj
           result == SliceObj_slice(sl, begin, end, max)
       IN objs' = [objs EXCEPT
                     !.vecs[sl.vec] = more_cap(@, result.cap_end),
                     !.slices = Append(@, [obj |-> result,
                                           made |-> [src |-> k, i |-> begin, j |-> end,
                                                     max |-> max]]),
                     !.ops = Append(@, Outcome("SLICE", k, begin, end, max,
                                               IF max > SliceObj_cap(sl) THEN "go_panic"
                                               ELSE "done"))]
    /\ UNCHANGED vm_vars

\* Stack::store_index on the slice k: s.borrow()[key] is SliceRef's Index,
\* get(key).unwrap()
StoreAny(k, key, val) ==
    /\ objs.kind = "oob" /\ objs.ops = << >>
    /\ LET sl == objs.slices[k].obj
           cell == SliceRef_get(sl, key)
       IN /\ objs' = IF cell = 0
                     THEN [objs EXCEPT !.ops = Append(@, Outcome("STORE_INDEX", k, key, 0, 0,
                                                                 "abort"))]
                     ELSE [objs EXCEPT !.vecs[sl.vec][cell] = val,
                                       !.ops = Append(@, Outcome("STORE_INDEX", k, key, 0, 0,
                                                                 "done"))]
          /\ aborted' = (cell = 0)
    /\ UNCHANGED << entry, functions, fibers, queue, closures, upvalues, chans,
                               packages >>

\* ------------------------------------------------------------------------
\* Consts (codegen): the constants of a program and their runtime vector
\* ------------------------------------------------------------------------

\* a GosValue as a constant: its ValueType, whether it is nil, and its data
\* (a number: the integer, the key of the function, the text of the string)
GosConst(t, nil, data) == [typ |-> t, nil |-> nil, data |-> data]

\* GosValue::is_nil and GosValue::typ
is_nil(val) == val.nil
typ(val) == val.typ

\* ValueType::copyable: the primitive types and the function handle
copyable(t) == t \in {"int", "int8", "function"}

\* GosValue's == on two values: the data, whatever the types
GosConst_eq(a, b) == a.data = b.data

\* CopyableVal's eq without the comparison of the types
CopyableVal_eq_untyped(a, b) == GosConst_eq(a, b)

\* CopyableVal::eq, the key of copyables_map
CopyableVal_eq(a, b) == typ(a) = typ(b) /\ GosConst_eq(a, b)

\* the values that add_const is given: nil of two types, equal and unequal
\* integers of two types, and a string (the text 3)
ConstVals ==
    {GosConst("slice", TRUE, 0), GosConst("map", TRUE, 0),
     GosConst("int", FALSE, 1), GosConst("int", FALSE, 2),
     GosConst("int8", FALSE, 1), GosConst("string", FALSE, 3)}

\* the methods that add_method is given: (obj_type, index)
ConstMethods == {<< 1, 0 >>}

\* Const::Var and Const::Method
Var(v) == [c |-> "Var", v |-> v]
Method(obj_type, index) == [c |-> "Method", m |-> obj_type, index |-> index]

\* FfiCtx::new_function on the func of the method (m, index): a function
\* handle, the key of the function being 10 * m + index
new_function(m, index) == GosConst("function", FALSE, 10 * m + index)

\* Consts::add: the constant is pushed, its index is the former length
Consts_add(consts, c) == [consts |-> Append(consts, c), index |-> Len(consts)]

\* Map::entry(key).or_insert_with on nil_map and copyables_map, the maps
\* being the vectors they index: the position of the first value that
\* equals val by eq, or -1
Entry(vec, val, eq(_, _)) ==
    IF \E j \in DOMAIN vec : eq(vec[j], val)
    THEN (CHOOSE j \in DOMAIN vec : eq(vec[j], val)) - 1
    ELSE -1

\* the key of nil_map: val.typ()
NilKey_eq(a, b) == typ(a) = typ(b)

\* the closure of get_runtime_consts on the constant of index i, after the
\* constants before it: (ConstType, i, j) is appended to consts_indices
RECURSIVE consts_indices(_, _)
consts_indices(consts, n) ==
    IF n = 0
    THEN [nils |-> << >>, copyables |-> << >>, others |-> << >>, indices |-> << >>]
    ELSE LET acc == consts_indices(consts, n - 1)
             i == n - 1
             c == consts[n]
             val == IF c.c = "Var" THEN c.v ELSE new_function(c.m, c.index)
         IN IF is_nil(val)
            THEN LET j == Entry(acc.nils, val, NilKey_eq)
                 IN IF j >= 0
                    THEN [acc EXCEPT !.indices = Append(@, << "Nil", i, j >>)]
                    ELSE [acc EXCEPT !.nils = Append(@, val),
                                     !.indices = Append(@, << "Nil", i, Len(acc.nils) >>)]
            ELSE IF copyable(typ(val))
            THEN LET j == Entry(acc.copyables, val, CopyableVal_eq)
                 IN IF j >= 0
                    THEN [acc EXCEPT !.indices = Append(@, << "Copyable", i, j >>)]
                    ELSE [acc EXCEPT !.copyables = Append(@, val),
                                     !.indices = Append(@, << "Copyable", i,
                                                           Len(acc.copyables) >>)]
            ELSE [acc EXCEPT !.others = Append(@, val),
                             !.indices = Append(@, << "Other", i, Len(acc.others) >>)]

\* Consts::get_runtime_consts: (consts, map); map is the set of the pairs
\* inserted, the later insert of a key replacing the earlier one
get_runtime_consts(consts) ==
    LET acc == consts_indices(consts, Len(consts))
        off(t) == CASE t = "Nil" -> 0
                    [] t = "Copyable" -> Len(acc.nils)
                    [] t = "Other" -> Len(acc.nils) + Len(acc.copyables)
        last(i) == CHOOSE k \in DOMAIN acc.indices :
                      /\ acc.indices[k][2] = i
                      /\ \A l \in DOMAIN acc.indices : acc.indices[l][2] = i => l <= k
    IN [consts |-> acc.nils \o acc.copyables \o acc.others,
        map |-> [i \in {acc.indices[k][2] : k \in DOMAIN acc.indices} |->
                    acc.indices[last(i)][3] + off(acc.indices[last(i)][1])]]

\* add_const(v)
AddConst(v) ==
    /\ objs.kind = "consts"
    /\ Len(objs.consts) < MaxConsts
    /\ objs' = [objs EXCEPT !.consts = Consts_add(@, Var(v)).consts]
    /\ UNCHANGED vm_vars

\* add_method(obj_type, index)
AddMethod(obj_type, index) ==
    /\ objs.kind = "consts"
    /\ Len(objs.consts) < MaxConsts
    /\ objs' = [objs EXCEPT !.consts = Consts_add(@, Method(obj_type, index)).consts]
    /\ UNCHANGED vm_vars

\* get_runtime_consts is called; added (history) is the number of constants
\* added before the call
GetRuntimeConsts ==
    /\ objs.kind = "consts"
    /\ LET r == get_runtime_consts(objs.consts)
       IN objs' = [objs EXCEPT !.runtime = [some |-> TRUE, consts |-> r.consts,
                                            map |-> r.map, added |-> Len(objs.consts)]]
    /\ objs' # objs
    /\ UNCHANGED vm_vars

ObjNext ==
    \/ \E v \in ConstVals : AddConst(v)
    \/ \E m \in ConstMethods : AddMethod(m[1], m[2])
    \/ GetRuntimeConsts
    \/ \E len \in 0..MaxCap : SliceLit(len)
    \/ \E len \in 0..MaxCap : \E begin \in 0..MaxCap : \E end \in -1..MaxCap :
          SliceArray(len, begin, end)
    \/ \E a \in DOMAIN objs.slices : \E b \in DOMAIN objs.slices : AppendSlice(a, b)
    \/ \E base \in 0..MaxBase : \E results \in 0..MaxResults :
          \E params \in 1..MaxParams : \E recv \in BOOLEAN : \E is_ffi \in BOOLEAN :
             PreCall(base, results, params, recv, is_ffi)
    \/ \E n \in Nums : PushArg(n)
    \/ CallPack
    \/ \E ptr \in BOOLEAN : \E ptr_recv \in BOOLEAN :
          \E embedded \in {"none", "value", "pointer"} :
             \E nested \in {"none", "direct", "field"} : \E n \in Nums :
                MakeIface(ptr, ptr_recv, embedded, nested, n)
    \/ Bind
    \/ \E n \in Nums : \E meta \in Nums : PushNamed(n, meta)
    \/ AddNamed
    \/ \E op \in {"ADD", "SHL"} : StoreNamed(op)
    \/ \E shape \in Shapes : \E n \in Nums : NewLit(shape, n)
    \/ StoreLocal \/ StoreElem \/ StoreDeref
    \/ \E k \in DOMAIN objs.slices : \E begin \in 0..MaxCap : \E end \in 0..MaxCap :
          \E max \in -1..MaxCap : SliceAny(k, begin, end, max)
    \/ \E k \in DOMAIN objs.slices : \E key \in 0..MaxCap : \E val \in Nums :
          StoreAny(k, key, val)
    \/ \E len \in 0..MaxCap : \E cap \in len..MaxCap : NewSlice(len, cap)
    \/ \E k \in DOMAIN objs.slices : \E begin \in 0..MaxCap : \E end \in 0..MaxCap :
          \E max \in -1..MaxCap : Slicing(k, begin, end, max)
    \/ \E s \in Texts : NewStr(s)
    \/ \E k \in DOMAIN objs.strs : \E begin \in 0..MaxCap : \E end \in -1..MaxCap :
          StrSlicing(k, begin, end)
    \/ \E ref \in BOOLEAN : \E a \in Nums : StructLit(ref, a)
    \/ \E open \in BOOLEAN : \E a \in Nums : NewUpVal(open, a)
    \/ \E i \in DOMAIN objs.keys : NewIface(i)
    \/ \E i \in DOMAIN objs.keys : \E val \in MapVals : MapInsert(i, val)
    \/ \E i \in DOMAIN objs.keys : MapGet(i)
    \/ \E t \in {"slice", "map"} : MakeRef(t)
    \/ \E v \in {IntV(a) : a \in Nums} \cup Range(objs.stack) : PushVal(v)
    \/ \E neq \in BOOLEAN : Compare(neq)

ObjSpec == ObjInit /\ [][ObjNext]_vars

\* ------------------------------------------------------------------------
\* Properties

\* fiber f executes an instruction that pops its top frame in this step
Pops(f) == Exec(f) /\ Len(fibers'[f].frames) < Len(fibers[f].frames)

\* fiber f executes an instruction with opcode op in this step
Executes(f, op) == Doing(f, op) /\ fibers'[f].tick = fibers[f].tick + 1

\* cell u is registered in frame fr
RegisteredIn(fr, u) == \E i \in DOMAIN fr.referred_by : fr.referred_by[i].uv = u

\* the frames of fiber f: running, prepared by PRE_CALL, and deferred
AllFrames(f) ==
    LET own == Range(fibers[f].frames) \cup Range(fibers[f].next_frames)
    IN own \cup UNION {{fr.defer_stack[i].frame : i \in DOMAIN fr.defer_stack} : fr \in own}

RECURSIVE Reverse(_)
Reverse(s) == IF s = << >> THEN << >> ELSE Append(Reverse(Tail(s)), Head(s))

\* C1, the pop: in the step that pops a frame, every cell registered in the
\* frame is afterwards either gone (nothing refers to it any more) or Closed
\* over the value its slot had at the pop; a cell that was dead stays dead.
C1_Step ==
    \A f \in FiberIds : Pops(f) =>
       \A i \in DOMAIN TopFrame(f).referred_by :
          LET r == TopFrame(f).referred_by[i]
              slot == fibers[f].stack[TopFrame(f).stack_base + r.index + 1]
          IN IF upvalues[r.uv].state = "Dead"
             THEN upvalues'[r.uv] = DeadCell
             ELSE upvalues'[r.uv] \in {ClosedCell(slot), DeadCell}

\* C1, between pops: an Open cell that points into a stack is registered in
\* a frame that still exists, so no fiber ever sees an Open cell of a popped
\* frame.
C1_NoStale ==
    \A u \in DOMAIN upvalues :
       upvalues[u].state = "Open" /\ upvalues[u].stack # 0 =>
          \E f \in FiberIds : \E fr \in AllFrames(f) : RegisteredIn(fr, u)

\* C1: when a frame is popped by RETURN, on_drop closes every alive cell
\* registered in it over the current value of its slot and skips the dead
\* ones, in the same step, before the fiber can be suspended.
C1_OnDropCloses == []C1_NoStale /\ [][C1_Step]_vars

\* C1 witness: F_MK has returned; of the three cells registered in its
\* frame the dead one was skipped and the two alive ones hold x's last value.
C1_Witness ==
    /\ entry = F_E_CLS
    /\ Len(fibers[1].frames) = 1
    /\ Len(upvalues) = 3
    /\ upvalues[1] = ClosedCell(IntV(9))
    /\ upvalues[2] = DeadCell
    /\ upvalues[3] = ClosedCell(IntV(9))

\* C2: a cell changes state only from Open to Closed, only in the step that
\* pops the frame it is registered in; a Closed cell is never Open again and
\* a dead cell stays dead.
C2_Step ==
    \A u \in DOMAIN upvalues :
       /\ upvalues[u].state = "Closed" => upvalues'[u].state \in {"Closed", "Dead"}
       /\ upvalues[u].state = "Dead" => upvalues'[u] = DeadCell
       /\ upvalues[u].state = "Open" /\ upvalues'[u].state = "Closed" =>
             \E f \in FiberIds : Pops(f) /\ RegisteredIn(TopFrame(f), u)

C2_ClosedForGood == [][C2_Step]_vars

\* C2 witness: a cell closed by F_MK's return has been written through a
\* pointer afterwards and is still Closed.
C2_Witness ==
    /\ entry = F_E_CLS
    /\ Len(upvalues) = 3
    /\ upvalues[1] = ClosedCell(IntV(3))
    /\ upvalues[3] = ClosedCell(IntV(9))

\* the argument vectors of a defer stack
Vecs(ds) == [i \in DOMAIN ds |-> ds[i].vec]

\* C3, at all times: what a frame recorded is what it still has to run
\* followed by what it has run, newest first.
C3_Lifo ==
    \A f \in FiberIds : \A i \in DOMAIN fibers[f].frames :
       LET fr == fibers[f].frames[i]
       IN fr.recorded = Vecs(fr.defer_stack) \o Reverse(fr.ran)

\* C3, the RETURN step: with deferred calls pending it pops exactly the
\* newest, pushes its arguments and installs its frame; a frame is popped
\* only with an empty defer stack.
C3_Return ==
    \A f \in FiberIds : Executes(f, "RETURN") =>
       LET fr == TopFrame(f)
           n == Len(fibers[f].frames)
       IN IF fr.defer_stack # << >>
          THEN LET call == Last(fr.defer_stack)
               IN /\ Len(fibers'[f].frames) = n + 1
                  /\ fibers'[f].frames[n].defer_stack = Front(fr.defer_stack)
                  /\ fibers'[f].frames[n + 1].closure = call.frame.closure
                  /\ SubSeq(fibers'[f].stack, 1, Len(fibers[f].stack) + Len(call.vec))
                        = fibers[f].stack \o call.vec
          ELSE Pops(f)

\* C3 as stated: when a deferred call returns, the RETURN that installed it
\* is the next instruction of the deferring frame.
C3_SameReturn ==
    \A f \in FiberIds :
       Pops(f) /\ TopFrame(f).is_deferred /\ fibers'[f].frames # << >> =>
          Last(fibers'[f].frames).pc = TopFrame(f).ret_pc

\* C3 amended: ... unless a panic is pending when the deferred call returns;
\* then the next instruction is the last one of the deferring function.
C3_ReturnAgain ==
    \A f \in FiberIds :
       Pops(f) /\ TopFrame(f).is_deferred /\ fibers'[f].frames # << >> =>
          LET fr == Last(fibers'[f].frames)
          IN fr.pc = IF fibers[f].panic.set THEN Len(code(func(fr))) - 1
                     ELSE TopFrame(f).ret_pc

\* C3 (as stated): deferred calls run newest first, one per execution of
\* RETURN, each exactly once, the same RETURN being executed again after
\* each; the frame is popped only when its defer stack is empty.
C3_Original == []C3_Lifo /\ [][C3_Return /\ C3_SameReturn]_vars

\* C3 (amended): as stated, except that after a deferred call that returns
\* with a panic pending the deferring frame continues at its last
\* instruction instead of the RETURN that installed the call.
C3_DeferLifo == []C3_Lifo /\ [][C3_Return /\ C3_ReturnAgain]_vars

\* C3 witness: F_G returned early, its deferred F_P(2) panicked, and F_G,
\* now at its last instruction, has run F_T(1) as well.
C3_Witness ==
    /\ entry = F_E_EARLY
    /\ Len(fibers[1].frames) = 2
    /\ fibers[1].frames[2].recorded = << << IntV(1) >>, << IntV(2) >> >>
    /\ fibers[1].frames[2].ran = << << IntV(2) >>, << IntV(1) >> >>
    /\ fibers[1].frames[2].defer_stack = << >>
    /\ fibers[1].frames[2].pc = Len(code(F_G)) - 1
    /\ fibers[1].panic.set

\* a deferred call, or a call made by one, is running in fiber fb
InDeferredCall(fb) == \E j \in DOMAIN fb.frames : fb.frames[j].is_deferred

\* the last instruction of the function of frame fr
LastPc(fr) == Len(code(func(fr))) - 1

\* C4, at all times: while a raised panic has not been recovered, the frame
\* on top, unless it belongs to a deferred call, stands at the last
\* instruction of its function.
C4_Inv ==
    \A f \in FiberIds :
       LET fb == fibers[f]
       IN fb.raised.set /\ fb.frames # << >> /\ ~InDeferredCall(fb) =>
             Last(fb.frames).pc = LastPc(Last(fb.frames))

\* C4, each pop under an unrecovered panic: the frame has no deferred call
\* left, the resumed frame gets one call_stack entry and is sent to its last
\* instruction.
C4_Step ==
    \A f \in FiberIds :
       Pops(f) /\ fibers[f].raised.set /\ fibers'[f].frames # << >> =>
          LET n == Len(fibers'[f].frames)
              fr == fibers'[f].frames[n]
          IN /\ TopFrame(f).defer_stack = << >>
             /\ fr.pc = LastPc(fr)
             /\ fibers'[f].panic.call_stack =
                   Append(fibers[f].panic.call_stack,
                          << func(fr), fibers[f].frames[n].pc - 1 >>)

\* C4: an unrecovered panic pops the frames from top to root, running each
\* frame's deferred calls first; each pop adds the resumed frame to the
\* panic's call_stack and sends it to its last instruction, so that no
\* ordinary instruction of an unwound frame runs.
C4_Unwinding == []C4_Inv /\ [][C4_Step]_vars

\* C5, the RECOVER step: it pushes the pending panic's value, or nil when no
\* panic is pending, and leaves no panic pending; when none was pending
\* nothing else changes.
C5_Step ==
    \A f \in FiberIds : Executes(f, "RECOVER") =>
       LET fb == fibers[f]
           val == IF fb.panic.set THEN fb.panic.msg ELSE NilV
       IN /\ fibers'[f].stack = Append(fb.stack, val)
          /\ ~fibers'[f].panic.set
          /\ ~fb.panic.set =>
                /\ fibers' = [fibers EXCEPT ![f] =
                                [Fetched(f) EXCEPT !.stack = Append(@, NilV),
                                                   !.raised = NoPanic,
                                                   !.recover_log = Append(@, NilV)]]
                /\ UNCHANGED << queue, closures, upvalues, chans, aborted, objs >>

\* C5, two in a row: F_R recovers twice; its second RECOVER gets nil.
C5_SecondNil ==
    \A f \in FiberIds :
       fibers[f].frames # << >> /\ func(TopFrame(f)) = F_R /\ TopFrame(f).pc >= 3 =>
          Last(fibers[f].recover_log) = NilV

C6_RecoveredReturn ==
    entry = F_E_REC /\ fibers[1].status = "done" =>
       /\ fibers[1].deferred_log = << << IntV(3) >>, << IntV(2) >>, << IntV(1) >> >>
       /\ fibers[1].recover_log = << IntV(42), NilV, NilV >>
       /\ ~fibers[1].printed.set

\* C7: a panic that was raised and not recovered is pending as long as its
\* fiber has frames, and is the panic reported when the fiber ends.
C7_PanicPending ==
    \A f \in FiberIds :
       LET fb == fibers[f]
       IN fb.raised.set =>
             IF fb.status = "done"
             THEN fb.printed.set /\ fb.printed.msg = fb.raised.msg
             ELSE fb.panic.set /\ fb.panic.msg = fb.raised.msg

\* C8, at all times: at most one fiber is being polled.
C8_One == Cardinality(Running) <= 1

\* C8, each step: a fiber whose instruction count or frames change is the
\* one fiber that is running.
C8_Step ==
    \A g \in FiberIds :
       /\ fibers[g].status # "none"
       /\ fibers'[g].tick # fibers[g].tick \/ fibers'[g].frames # fibers[g].frames
       => Running = {g}

\* C8: at most one fiber executes instructions at any instant; between two
\* suspension points of a fiber no other fiber executes an instruction.
C8_OneAtATime == []C8_One /\ [][C8_Step]_vars

\* C8 witness: a fiber is in the middle of a quantum while another one,
\* suspended in the middle of its program, waits in the run queue.
C8_Witness ==
    \E f, g \in FiberIds :
       /\ fibers[f].status = "running" /\ fibers[f].at = "exec" /\ fibers[f].tick > 0
       /\ fibers[g].status = "ready" /\ fibers[g].at = "quantum"

\* C9, at all times: a fiber has run at most yield_unit iterations since
\* its last yield.
C9_Bound == \A f \in FiberIds : fibers[f].tick <= yield_unit

\* C9, the step after yield_unit iterations: the fiber goes to the back of
\* the run queue.
C9_Yields ==
    \A f \in FiberIds :
       /\ fibers[f].status = "running" /\ fibers[f].at = "exec"
       /\ fibers[f].tick = yield_unit
       /\ fibers'[f] # fibers[f]
       => fibers'[f].status = "ready" /\ queue' = Append(queue, f)

\* C9, liveness: a runnable fiber is eventually polled.
C9_Live ==
    \A g \in FiberIds :
       (fibers[g].status \in {"spawned", "ready"}) ~> (fibers[g].status = "running" \/ aborted)

\* C9: a fiber executes at most 1024 instructions between two yields, so
\* that with a fair executor every other runnable fiber eventually runs,
\* even beside a fiber that loops forever without a channel operation.
C9_Quantum == []C9_Bound /\ [][C9_Yields]_vars /\ C9_Live

\* C9 witness: F_SPIN's fiber has used up a quantum and waits in the run
\* queue while another fiber executes.
C9_Witness ==
    \E f, g \in FiberIds :
       /\ fibers[f].status = "ready" /\ fibers[f].at = "quantum"
       /\ func(Last(fibers[f].frames)) = F_SPIN
       /\ fibers[g].status = "running" /\ fibers[g].at = "exec" /\ fibers[g].tick > 0

\* C10, at all times: a fiber that has not been polled twice has executed
\* nothing, and a spawned fiber is first polled only after its spawner has
\* stopped running.
C10_Inv ==
    \A g \in FiberIds :
       LET fb == fibers[g]
       IN fb.status # "none" =>
             /\ fb.at \in {"spawn", "start"} =>
                   fb.tick = 0 /\ Len(fb.frames) = 1 /\ fb.frames[1].pc = 0
             /\ fb.at \notin {"spawn", "start"} => fb.polls = 2
             /\ fb.polls > 0 /\ fb.parent # 0 => fb.psusp

\* C10, the spawning CALL: the spawner keeps running at the instruction
\* after the CALL, the new fiber is queued and has executed nothing.
C10_Step ==
    \A f \in FiberIds : Executes(f, "CALL") /\ CurInst(f).t0 = "FlagA" =>
       /\ fibers'[f].status = "running"
       /\ Len(fibers'[f].frames) = Len(fibers[f].frames)
       /\ Last(fibers'[f].frames).pc = TopFrame(f).pc + 1
       /\ \E g \in FiberIds :
             /\ fibers[g].status = "none" /\ fibers'[g].status = "spawned"
             /\ fibers'[g].polls = 0 /\ fibers'[g].parent = f
             /\ queue' = Append(queue, g)

\* C10: a spawned fiber executes nothing when it is spawned nor when it is
\* first scheduled; the spawner continues after the CALL without suspending
\* and reaches its next suspension point before the child's first
\* instruction.
C10_ParentFirst == []C10_Inv /\ [][C10_Step]_vars

\* C10 witness: a spawned fiber has executed its first instruction; it was
\* polled twice and its spawner is suspended or done.
C10_Witness ==
    \E g \in FiberIds :
       /\ fibers[g].parent # 0
       /\ fibers[g].status = "running" /\ fibers[g].at = "exec" /\ fibers[g].tick = 1
       /\ fibers[g].polls = 2
       /\ fibers[fibers[g].parent].status \in {"ready", "blocked", "done"}

\* a fiber whose task is not being polled
Suspended(f) == fibers[f].status \in {"spawned", "ready", "blocked"}

\* the cell that the upvalue instruction fiber f stands at goes through
CellAt(f) == TopFrame(f).var_ptrs[CurInst(f).imm + 1]

\* C11, at all times: a suspended fiber holds no borrow of its stack.
C11_Released ==
    \A f \in FiberIds : Suspended(f) => fibers[f].stack_ref = "none"

\* C11, each step: a fiber that reads or writes an existing slot of a
\* suspended fiber's stack through an Open upvalue does so without a borrow
\* conflict: the VM is not stopped.
C11_Access ==
    \A f \in FiberIds :
       (Doing(f, "LOAD_UPVALUE") \/ Doing(f, "STORE_UPVALUE")) =>
          LET d == upvalues[CellAt(f)]
          IN d.state = "Open" /\ d.stack \notin {0, f} /\ Suspended(d.stack)
             /\ d.stack_base + d.index + 1 \in DOMAIN fibers[d.stack].stack
                => ~aborted'

\* C11: a fiber suspended at a send, a recv, a foreign call or a quantum
\* boundary holds no borrow of its own stack, so that another fiber can use
\* that stack through an Open upvalue while it is suspended.
C11_NoBorrow == []C11_Released /\ [][C11_Access]_vars

\* the channel of the send / receive that fiber f is attempting, 0 if none
SendsOn(f) ==
    IF Doing(f, "SEND") THEN fibers[f].stack[Len(fibers[f].stack) - 1].n
    ELSE IF fibers[f].status = "running" /\ fibers[f].at = "send"
         THEN fibers[f].pend.chan ELSE 0

RecvsOn(f) ==
    IF Doing(f, "RECV") THEN Last(fibers[f].stack).n
    ELSE IF fibers[f].status = "running" /\ fibers[f].at = "recv"
         THEN fibers[f].pend.chan ELSE 0

\* the step is one of fiber f, which is being polled
Acts(f) == fibers[f].status = "running" /\ fibers'[f] # fibers[f]

\* the stack of fiber f under the operands of its RECV, and the RECV's flag
RecvBase(f) == IF Doing(f, "RECV") THEN Front(fibers[f].stack) ELSE fibers[f].stack
RecvFlag(f) == IF Doing(f, "RECV") THEN CurInst(f).t1 ELSE fibers[f].pend.flag

\* what a RECV that gives v and ok leaves on the stack
RecvPushes(f, v, ok) ==
    RecvBase(f) \o (IF RecvFlag(f) = "FlagA"
                    THEN << v, Val("bool", IF ok THEN 1 ELSE 0) >> ELSE << v >>)

\* C12, a SEND on a closed channel: a panic is raised in the sender and the
\* channel is left as it is.
C12_Send ==
    \A f \in FiberIds :
       LET c == SendsOn(f)
       IN c # 0 /\ Acts(f) /\ chans[c].closed =>
             /\ fibers'[f].panic.set
             /\ fibers'[f].panic.msg = StrV(MSG_SEND_CLOSED)
             /\ chans' = chans

\* C12, a RECV on a closed channel: the oldest buffered value with ok=true
\* while there is one, then at once the receive-zero value with ok=false.
C12_Recv ==
    \A f \in FiberIds :
       LET c == RecvsOn(f)
       IN c # 0 /\ Acts(f) /\ chans[c].closed =>
             /\ fibers'[f].status = "running" /\ fibers'[f].at = "exec"
             /\ IF chans[c].buf # << >>
                THEN /\ fibers'[f].stack = RecvPushes(f, Head(chans[c].buf), TRUE)
                     /\ chans'[c].buf = Tail(chans[c].buf)
                ELSE /\ fibers'[f].stack = RecvPushes(f, chans[c].recv_zero, FALSE)
                     /\ chans' = chans

\* C12: after CLOSE every SEND on the channel panics and enqueues nothing,
\* every RECV delivers what is still buffered, in order, with ok=true, and
\* then the receive-zero value with ok=false, without suspending.
C12_Closed == [][C12_Send /\ C12_Recv]_vars

\* C12 witness: in F_E_SEL the goroutine's send after its close has
\* panicked, and the main fiber has received the buffered 8 from the closed
\* channel and then the zero value with ok=false.
C12_Witness ==
    /\ entry = F_E_SEL
    /\ fibers[2].printed.set /\ fibers[2].printed.msg = StrV(MSG_SEND_CLOSED)
    /\ fibers[1].recv_log = << [val |-> IntV(8), ok |-> TRUE, closed |-> TRUE],
                               [val |-> IntV(0), ok |-> FALSE, closed |-> TRUE] >>

\* C13, at all times: what has been received from a channel, followed by
\* what it holds, is what has been sent on it; it holds at most cap values.
C13_Fifo ==
    \A c \in DOMAIN chans :
       /\ chans[c].sent = chans[c].rcvd \o chans[c].buf
       /\ Len(chans[c].buf) <= chans[c].cap

\* C13, a SEND on a full open channel and a RECV on an empty open channel:
\* the fiber is suspended and the channel is left as it is.
C13_Suspends ==
    \A f \in FiberIds :
       /\ LET c == SendsOn(f)
          IN c # 0 /\ Acts(f) /\ ~chans[c].closed /\ Len(chans[c].buf) = chans[c].cap =>
                fibers'[f].status = "blocked" /\ chans' = chans
       /\ LET c == RecvsOn(f)
          IN c # 0 /\ Acts(f) /\ ~chans[c].closed /\ chans[c].buf = << >> =>
                fibers'[f].status = "blocked" /\ chans' = chans

\* C13, the end of a suspension: a fiber suspended in a SEND is resumed only
\* once there is room or the channel is closed, one suspended in a RECV only
\* once there is a value or the channel is closed.
C13_Resumes ==
    \A f \in FiberIds :
       fibers[f].status = "blocked" /\ fibers'[f].status # "blocked" =>
          /\ fibers[f].at = "send" => CanSend(fibers[f].pend.chan)
          /\ fibers[f].at = "recv" => CanRecv(fibers[f].pend.chan)

Ints(n) == [i \in 1..n |-> IntV(i - 1)]

\* C14, the result: once the consumer has left its loop it has received
\* 0 .. ProdN-1 in this order, each with ok=true, then ok=false, and its sum
\* is that of these values.
C14_Result ==
    entry = F_E_PC /\ fibers[1].frames # << >> /\ fibers[1].frames[1].pc >= 20 =>
       /\ chans[1].rcvd = Ints(ProdN)
       /\ fibers[1].recv_log =
             [i \in 1..(ProdN + 1) |->
                IF i <= ProdN THEN [val |-> IntV(i - 1), ok |-> TRUE,
                                    closed |-> fibers[1].recv_log[i].closed]
                ELSE [val |-> IntV(0), ok |-> FALSE, closed |-> TRUE]]
       /\ fibers[1].stack[2] = IntV((ProdN * (ProdN - 1)) \div 2)

\* C14, termination: both fibers of the producer/consumer program end.
C14_Ends ==
    entry = F_E_PC => <>(fibers[1].status = "done" /\ fibers[2].status = "done")

\* C14: the producer sends 0 .. ProdN-1 into a channel of capacity ChanCap
\* and closes it, the consumer receives until ok=false; under fair
\* scheduling both end, and the consumer has received exactly these values
\* in order (sum ProdN*(ProdN-1)/2, 4950 for 100).
C14_ProducerConsumer == []C14_Result /\ C14_Ends

\* C14 witness: both fibers have ended, neither with a panic, and all the
\* values have gone through the channel.
C14_Witness ==
    /\ entry = F_E_PC
    /\ fibers[1].status = "done" /\ fibers[2].status = "done"
    /\ ~fibers[1].printed.set /\ ~fibers[2].printed.set
    /\ chans[1].closed /\ chans[1].rcvd = Ints(ProdN) /\ chans[1].buf = << >>

\* The select table that fiber f stands at, read from the code: its slots
\* (0-based), whether the last one is a default, and for each case slot the
\* position in f's stack of its first operand (the operands of slot 0 are
\* the deepest; a send has two, channel then value, a receive one).
TableCode(f) == code(func(TopFrame(f)))
TableBlocks(f) == CurInst(f).imm
TableDefault(f) == TableCode(f)[TopFrame(f).pc + TableBlocks(f)].t0 = "FlagE"
TableCases(f) == 0..(TableBlocks(f) - (IF TableDefault(f) THEN 2 ELSE 1))
SlotCode(f, i) == TableCode(f)[TopFrame(f).pc + i + 1]
Width(f, i) == IF SlotCode(f, i).t0 = "FlagA" THEN 2 ELSE 1

RECURSIVE WidthFrom(_, _)
WidthFrom(f, i) ==
    IF i \notin TableCases(f) THEN 0 ELSE Width(f, i) + WidthFrom(f, i + 1)

CaseChan(f, i) == fibers[f].stack[Len(fibers[f].stack) - WidthFrom(f, i) + 1].n
CaseVal(f, i) == fibers[f].stack[Len(fibers[f].stack) - WidthFrom(f, i) + 2]
CaseReady(f, i) ==
    IF SlotCode(f, i).t0 = "FlagA" THEN CanSend(CaseChan(f, i)) ELSE CanRecv(CaseChan(f, i))

\* C15, a SELECT with a default: the fiber is not suspended; if no case can
\* proceed no channel changes and control goes to the end of the table plus
\* the default's offset.
C15_Default ==
    \A f \in FiberIds :
       Doing(f, "SELECT") /\ Acts(f) /\ TableDefault(f) =>
          /\ fibers'[f].status = "running" /\ fibers'[f].at = "exec"
          /\ (\A i \in TableCases(f) : ~CaseReady(f, i)) =>
                /\ chans' = chans
                /\ Last(fibers'[f].frames).pc =
                      TopFrame(f).pc + TableBlocks(f)
                        + TableCode(f)[TopFrame(f).pc + TableBlocks(f)].imm

\* C15, a SELECT without default none of whose cases can proceed: the fiber
\* is suspended and no channel changes.
C15_Suspends ==
    \A f \in FiberIds :
       Doing(f, "SELECT") /\ Acts(f) /\ ~TableDefault(f)
       /\ (\A i \in TableCases(f) : ~CaseReady(f, i)) =>
          fibers'[f].status = "blocked" /\ chans' = chans

\* C15, the end of the suspension: the fiber is resumed only when one of
\* its cases can proceed, and the case it then takes is one that can.
C15_Resumes ==
    \A f \in FiberIds :
       LET ready == {i \in DOMAIN fibers[f].pend.comms :
                       CommReady(fibers[f].pend.comms[i])}
       IN /\ fibers[f].at = "select" /\ fibers[f].status = "blocked"
             /\ fibers'[f].status # "blocked" => ready # {}
          /\ fibers[f].at = "select" /\ Acts(f) =>
                IF ready = {} THEN fibers'[f].status = "blocked" /\ chans' = chans
                ELSE \/ fibers'[f].panic.set
                     \/ /\ Len(fibers'[f].select_log) = Len(fibers[f].select_log) + 1
                        /\ \E i \in ready : Last(fibers'[f].select_log).slot
                                               = fibers[f].pend.comms[i].slot

\* C15: a SELECT with a default arm never suspends and, with no case able to
\* proceed, takes the default and modifies no channel; a SELECT without
\* default suspends until a case can proceed and then takes such a case.
C15_Select == [][C15_Default /\ C15_Suspends /\ C15_Resumes]_vars

\* C15 witness: in F_E_SEL the first select, on two empty channels, has
\* taken its default; the second one, without default, was suspended until
\* the goroutine sent on b and has taken the case of b.
C15_Witness ==
    /\ entry = F_E_SEL
    /\ fibers[1].select_log = << [at |-> 16, slot |-> -1, to |-> 22],
                                 [at |-> 25, slot |-> 1, to |-> 29] >>
    /\ fibers[1].polls = 2

\* The case a select step of fiber f has taken (the last entry of its log),
\* and that case's channel and value: read from the operands on the stack
\* when the SELECT is executed, from the registered cases when a suspended
\* select is polled again.
Won(f) == Last(fibers'[f].select_log)
WonCode(f) == TableCode(f)[Won(f).at + Won(f).slot + 1]
WonComm(f) ==
    IF fibers[f].at = "select"
    THEN LET i == CHOOSE i \in DOMAIN fibers[f].pend.comms :
                      fibers[f].pend.comms[i].slot = Won(f).slot
         IN [chan |-> fibers[f].pend.comms[i].chan, val |-> fibers[f].pend.comms[i].val]
    ELSE [chan |-> CaseChan(f, Won(f).slot),
          val |-> IF WonCode(f).t0 = "FlagA" THEN CaseVal(f, Won(f).slot) ELSE NilV]
SelectBase(f) ==
    IF fibers[f].at = "select" THEN fibers[f].stack
    ELSE SubSeq(fibers[f].stack, 1, Len(fibers[f].stack) - WidthFrom(f, 0))
Wins(f) ==
    /\ f \in DOMAIN fibers /\ f \in DOMAIN fibers'
    /\ Len(fibers'[f].select_log) = Len(fibers[f].select_log) + 1
    /\ Won(f).slot >= 0

\* C16, the operation: only the winning case's channel changes, by the one
\* send or the one receive of that case.
C16_Operation ==
    \A f \in FiberIds : Wins(f) =>
       LET c == WonComm(f).chan
       IN \A d \in DOMAIN chans :
            chans'[d].buf =
               IF d # c THEN chans[d].buf
               ELSE IF WonCode(f).t0 = "FlagA" THEN Append(chans[d].buf, WonComm(f).val)
               ELSE IF chans[d].buf = << >> THEN << >> ELSE Tail(chans[d].buf)

\* C16, the pushes: nothing for a send or a plain recv, the value for
\* recv-with-value, the value then ok for recv-with-value-and-ok.
C16_Pushes ==
    \A f \in FiberIds : Wins(f) =>
       LET ch == chans[WonComm(f).chan]
           ok == ch.buf # << >>
           v == IF ok THEN Head(ch.buf) ELSE ch.recv_zero
           flag == WonCode(f).t0
       IN fibers'[f].stack =
             SelectBase(f) \o (CASE flag = "FlagC" -> << v >>
                                 [] flag = "FlagD" -> << v, Val("bool", IF ok THEN 1 ELSE 0) >>
                                 [] OTHER -> << >>)

\* C16, the jump: to the end of the table plus the offset stored in the
\* winning slot itself, 0 for the first slot.
C16_Jump ==
    \A f \in FiberIds : Wins(f) =>
       LET blocks == TableCode(f)[Won(f).at + 1].imm
           own == IF Won(f).slot = 0 THEN 0 ELSE WonCode(f).imm
       IN /\ Won(f).to = Won(f).at + blocks + own
          /\ Last(fibers'[f].frames).pc = Won(f).to

\* C16: when a case of a SELECT wins, that case's channel operation alone
\* has been performed, the pushes follow its flag, and control is at the end
\* of the table plus the offset of the winning case's own slot.
C16_Winner == [][C16_Operation /\ C16_Pushes /\ C16_Jump]_vars

\* C16 witness: F_E_SEL has taken the second case of select 2 (recv with
\* value), then, a having room and b holding a value, the second case of
\* select 3 (recv with value and ok), then the first case of select 4 (send).
C16_Witness ==
    /\ entry = F_E_SEL
    /\ Len(fibers[1].select_log) = 4
    /\ fibers[1].select_log[2].slot = 1
    /\ fibers[1].select_log[3].slot = 1
    /\ fibers[1].select_log[4] = [at |-> 39, slot |-> 0, to |-> 41]

\* the slices of ObjSpec that a slicing expression s[i:j] or s[i:j:max] made
Sliced == {k \in DOMAIN objs.slices : objs.slices[k].made.src # 0}

\* C17, the length: len(s[i:j]) == j - i.
C17_Len ==
    \A k \in Sliced :
       LET m == objs.slices[k].made
       IN SliceObj_len(objs.slices[k].obj) = m.j - m.i

\* C17, the capacity: cap(s[i:j:max]) == max - i.
C17_Cap ==
    \A k \in Sliced :
       LET m == objs.slices[k].made
       IN m.max >= 0 => SliceObj_cap(objs.slices[k].obj) = m.max - m.i

\* C17: for every slice s, sub-slices with a non-zero begin included, and
\* indices in range, len(s[i:j]) == j - i and cap(s[i:j:max]) == max - i.
C17_LenCap == C17_Len /\ C17_Cap

\* the strings of ObjSpec that a slicing expression s[b:e] made
StrSliced == {k \in DOMAIN objs.strs : objs.strs[k].made.src # 0}
StrEnd(k) ==
    IF objs.strs[k].made.e = -1 THEN StringObj_len(objs.strs[objs.strs[k].made.src].obj)
    ELSE objs.strs[k].made.e

\* C18, the bytes: s.slice(b, e) denotes the bytes b..e of s.
C18_Bytes ==
    \A k \in StrSliced :
       LET m == objs.strs[k].made
       IN as_str(objs.strs[k].obj) = SubSeq(as_str(objs.strs[m.src].obj), m.b + 1, StrEnd(k))

\* C18, the length: s.slice(b, e) has length e - b, an end of -1 meaning
\* len(s).
C18_Length ==
    \A k \in StrSliced :
       StringObj_len(objs.strs[k].obj) = StrEnd(k) - objs.strs[k].made.b

\* C18: for every string s, views with a non-zero begin included, and
\* 0 <= b <= e <= len(s), s.slice(b, e) is the bytes b..e of s and has
\* length e - b; an end of -1 means len(s).
C18_Slice == C18_Bytes /\ C18_Length

\* the key values of ObjSpec
Keys == Range(objs.keys)

\* C19, the hashes: equal keys have equal hashes.
C19_Hash ==
    \A a \in Keys : \A b \in Keys : GosValue_eq(a, b) => GosValue_hash(a) = GosValue_hash(b)

\* C19, the lookup: a lookup gives the value of the entry whose key is
\* equal to the key looked up.
C19_Lookup ==
    \A n \in DOMAIN objs.got : \A i \in DOMAIN objs.map :
       GosValue_eq(objs.map[i].key, objs.got[n].key) => objs.got[n].val = objs.map[i].val

\* C19: for all map keys a and b, a == b implies hash(a) == hash(b), and so
\* an entry inserted under a key is found by a lookup with an equal key.
C19_EqualHash == C19_Hash /\ C19_Lookup

\* C19 for the keys that are no pointers: structs (field-wise equal),
\* strings, numbers and interfaces of them
C19_Structs ==
    /\ \A a \in Keys : \A b \in Keys :
          a.t # "ptr" /\ GosValue_eq(a, b) => GosValue_hash(a) = GosValue_hash(b)
    /\ \A n \in DOMAIN objs.got : \A i \in DOMAIN objs.map :
          /\ objs.got[n].key.t = "struct"
          /\ GosValue_eq(objs.map[i].key, objs.got[n].key)
          => objs.got[n].val = objs.map[i].val

\* the two operands of a comparison of ObjSpec are both maps or both slices
RefOperands ==
    /\ Len(objs.stack) = 2
    /\ objs.stack[1].t = objs.stack[2].t
    /\ objs.stack[1].t \in {"slice", "map"}

C21_Mismatch(f) ==
    /\ Doing(f, "TYPE_ASSERT")
    /\ CurInst(f).imm # Last(fibers[f].stack).meta
    /\ (aborted' \/ fibers'[f] # fibers[f])

C21_Step ==
    \A f \in FiberIds :
        C21_Mismatch(f) =>
            IF CurInst(f).t2 > 0
            THEN /\ ~fibers'[f].panic.set
                 /\ fibers'[f].stack = Front(fibers[f].stack) \o
                        << underlying(Last(fibers[f].stack)), Val("bool", 0) >>
            ELSE /\ ~aborted'
                 /\ fibers'[f].panic.set
                 /\ fibers'[f].panic.msg.t = "str"
                 /\ Last(fibers'[f].frames).pc = Len(code(func(TopFrame(f)))) - 1

C21_Panics == [][C21_Step]_vars

\* with the try flag alone the claim's second half holds
C21_Try ==
    [][\A f \in FiberIds : (C21_Mismatch(f) /\ CurInst(f).t2 > 0) => C21_Step]_vars

\* ------------------------------------------------------------------------
\* the operand of the operation o of ObjSpec
Operand(o) == objs.slices[o.k].obj

\* the indices of o are out of range: a slicing that violates
\* 0 <= i <= j <= max <= cap(s) (max being cap(s) in s[i:j]), an element
\* store s[k] with k >= len(s)
OutOfRange(o) ==
    IF o.op = "SLICE"
    THEN LET top == IF o.max < 0 THEN SliceObj_cap(Operand(o)) ELSE o.max
         IN ~(o.i <= o.j /\ o.j <= top /\ top <= SliceObj_cap(Operand(o)))
    ELSE o.i >= SliceObj_len(Operand(o))

\* C22: every slicing and every element store with indices out of range
\* raises a recoverable Go panic: none succeeds silently, none ends the VM.
C22_Recoverable ==
    \A n \in DOMAIN objs.ops :
       (objs.kind = "oob" /\ OutOfRange(objs.ops[n])) =>
           objs.ops[n].outcome = "go_panic" /\ ~aborted

\* the one check the code makes: s[i:j:max] with max > cap(s) panics
C22_MaxChecked ==
    \A n \in DOMAIN objs.ops :
       LET o == objs.ops[n]
       IN (objs.kind = "oob" /\ o.op = "SLICE" /\ o.max > SliceObj_cap(Operand(o))) =>
              o.outcome = "go_panic"

\* ------------------------------------------------------------------------
\* the objects of the aggregate value v: its own and the nested ones
RECURSIVE Objects(_)
Objects(v) == IF ~IsAgg(v) THEN {} ELSE {v.n} \cup Objects(objs.heap[v.n][1])

\* C23: a store of an array or struct value (into a local, an element, a
\* field, a pointer target) stores a copy: after it the destination and the
\* source share no object, at any nesting depth.
C23_Copy ==
    (objs.kind = "copy" /\ objs.ops # << >>) =>
        Objects(objs.slots[1].v) \cap Objects(objs.slots[2].v) = {}

\* every store but the one through a pointer to an array copies
C23_CopyButArrayPointer ==
    (/\ (objs.kind = "copy" /\ objs.ops # << >>)
     /\ ~(objs.ops[1].op = "STORE_DEREF" /\ objs.slots[2].v.t = "array")) =>
        Objects(objs.slots[1].v) \cap Objects(objs.slots[2].v) = {}

\* ------------------------------------------------------------------------
\* the result of the operation o on two Named operands: the slot it was
\* left in (the top for ADD, the local for a store)
NamedResult(o) == IF o.max = 1 THEN objs.stack[1] ELSE Last(objs.stack)

\* C24: arithmetic on Named operands (ADD, and the compound assignments
\* fused into a store) completes without a trap and yields a Named with the
\* left operand's metadata whose underlying value is the result.
C24_Named ==
    \A n \in DOMAIN objs.ops :
       objs.kind = "named" =>
          LET o == objs.ops[n]
          IN /\ o.outcome = "done" /\ ~aborted
             /\ NamedResult(o).t = "named" /\ NamedResult(o).meta = o.k
             /\ o.op = "ADD" => NamedResult(o).n = o.i + o.j

\* the fused x += y alone does what the claim says
C24_FusedAdd ==
    \A n \in DOMAIN objs.ops :
       (objs.kind = "named" /\ objs.ops[n].op = "ADD" /\ objs.ops[n].max = 1) =>
          /\ objs.ops[n].outcome = "done" /\ ~aborted
          /\ objs.stack[1] = NamedV(IntV(objs.ops[n].i + objs.ops[n].j), objs.ops[n].k)

\* ------------------------------------------------------------------------
\* C25, the binding: a package-init RETURN binds the trailing stack values
\* to the package's variables as var_mapping says.
C25_Binds ==
    [][\A f \in FiberIds :
          (Executes(f, "RETURN") /\ CurInst(f).t0 = "FlagA") =>
             LET pkg == packages[CurInst(f).imm + 1]
                 top == fibers[f].stack
             IN /\ packages'[CurInst(f).imm + 1].members[pkg.var_mapping.map[1] + 1] =
                      top[Len(top) - 1]
                /\ packages'[CurInst(f).imm + 1].members[pkg.var_mapping.map[2] + 1] =
                      top[Len(top)]]_vars

\* C25: a package is initialized once: the package-init RETURN leaves the
\* package inited, an IMPORT executed after it pushes false, an IMPORT
\* executed before it pushes true.
C25_InitOnce ==
    [][\A f \in FiberIds :
          /\ (Executes(f, "RETURN") /\ CurInst(f).t0 = "FlagA") =>
                inited(packages'[CurInst(f).imm + 1])
          /\ Executes(f, "IMPORT") =>
                Last(fibers'[f].stack) =
                   Val("bool", IF packages[CurInst(f).imm + 1].inits > 0 THEN 0 ELSE 1)]_vars

\* ------------------------------------------------------------------------
\* the closure that BIND_INTERFACE_METHOD made, and what it was made from
Bound == objs.got[1]
Shape == objs.slots[1].shape

Calls(f) == Executes(f, "CALL") /\ func(Last(fibers[f].next_frames)) # 0

\* the frame that the CALL of fiber f has installed: pushed, handed to the
\* new fiber, or recorded as a deferred call
Installed(f) ==
    CASE CurInst(f).t0 = "Void" -> Last(fibers'[f].frames)
      [] CurInst(f).t0 = "FlagA" ->
           fibers'[CHOOSE g \in FreeFibers : \A h \in FreeFibers : g <= h].frames[1]
      [] CurInst(f).t0 = "FlagB" ->
           Last(Last(fibers'[f].frames).defer_stack).frame

\* the frame of the caller after the CALL of fiber f
Caller(f) == fibers'[f].frames[Len(fibers[f].frames)]

\* the slot i of the callee's up_ptrs is served as C27 says, the fresh cell
\* of a local pointing at base and being registered in the frame reg
Served(f, i, base, reg) ==
    LET nframe == Last(fibers[f].next_frames)
        p == Func(func(nframe)).up_ptrs[i]
        u == Installed(f).var_ptrs[i]
    IN IF p.is_up_value THEN u = closures[nframe.closure].uvs[i]
       ELSE /\ u > Len(upvalues)
            /\ upvalues'[u] = OpenCell(p, f, base)
            /\ \E r \in DOMAIN reg.referred_by :
                  reg.referred_by[r] = [index |-> p.index, uv |-> u]

\* C27 as stated: the fresh cell of a local points at the caller's stack
\* region and is registered in the caller frame.
C27_Original ==
    [][\A f \in FiberIds :
          Calls(f) =>
             \A i \in DOMAIN Func(func(Last(fibers[f].next_frames))).up_ptrs :
                Served(f, i, TopFrame(f).stack_base, Caller(f))]_vars

\* C27: at CALL, for each upvalue slot of the callee, var_ptrs holds the
\* closure's own cell if the slot is an upvalue of the parent, and otherwise
\* a fresh Open cell that points at the new frame's region of the calling
\* fiber's stack (the stack_base PRE_CALL gave it) and is registered in the
\* new frame's referred_by under the slot's index.
C27_VarPtrs ==
    [][\A f \in FiberIds :
          Calls(f) =>
             \A i \in DOMAIN Func(func(Last(fibers[f].next_frames))).up_ptrs :
                Served(f, i, Last(fibers[f].next_frames).stack_base, Installed(f))]_vars

\* C27, reached: F_INC runs on the cell of its closure while the frame of
\* F_MK below it holds the fresh cell of its local x, registered.
C27_Witness ==
    \E f \in FiberIds :
       /\ Len(fibers[f].frames) >= 2
       /\ LET fr == Last(fibers[f].frames)
              mk == fibers[f].frames[Len(fibers[f].frames) - 1]
          IN /\ func(fr) = F_INC /\ func(mk) = F_MK
             /\ fr.var_ptrs = closures[fr.closure].uvs
             /\ mk.var_ptrs # << >>
             /\ upvalues[mk.var_ptrs[1]].state = "Open"
             /\ upvalues[mk.var_ptrs[1]].stack_base = mk.stack_base
             /\ RegisteredIn(mk, mk.var_ptrs[1])

\* ------------------------------------------------------------------------
\* the cells that the LITERAL of fiber f makes for the closure with
\* function key: one per upvalue slot, in the order of the slots
Captured(key) ==
    Sel([i \in DOMAIN Func(key).up_ptrs |-> Func(key).up_ptrs[i].is_up_value],
        Len(Func(key).up_ptrs))

\* the cell of descriptor d made by fiber f's LITERAL is as C28 says when
\* the frames searched are those at the positions from..top of the stack
Searched(f, d, u, from) ==
    LET frames == fibers[f].frames
        hits == {j \in from..Len(frames) : func(frames[j]) = d.func}
        j == CHOOSE j \in hits : \A i \in hits : i <= j
    IN IF hits = {} THEN upvalues'[u] = OpenCell(d, 0, 0)
       ELSE /\ upvalues'[u] = OpenCell(d, f, frames[j].stack_base)
            /\ \E r \in DOMAIN fibers'[f].frames[j].referred_by :
                  fibers'[f].frames[j].referred_by[r] = [index |-> d.index, uv |-> u]

\* C28: LITERAL searches every frame of the fiber, from the executing one
\* to the bottom, for the nearest frame of the upvalue's source function,
\* points the upvalue at this fiber's stack with that frame's stack_base
\* and registers it there; without a match the upvalue is left as it is.
C28_Search ==
    [][\A f \in FiberIds :
          Executes(f, "LITERAL") =>
             \A r \in DOMAIN Captured(CurInst(f).imm) :
                Searched(f, Func(CurInst(f).imm).up_ptrs[Captured(CurInst(f).imm)[r]],
                         Len(upvalues) + r, 1)]_vars

\* the search as the code makes it: every frame but the bottom one
C28_AboveBottom ==
    [][\A f \in FiberIds :
          Executes(f, "LITERAL") =>
             \A r \in DOMAIN Captured(CurInst(f).imm) :
                Searched(f, Func(CurInst(f).imm).up_ptrs[Captured(CurInst(f).imm)[r]],
                         Len(upvalues) + r, 2)]_vars

\* a variadic CALL packs in this step
Packs == objs.kind = "pack" /\ Len(objs.ops) = 1 /\ Len(objs'.ops) = 2

\* the number of stack slots below the first argument of the variadic
\* parameter: the caller's values, the return slots of a Go call, the
\* receiver, and the fixed parameters
Below(nframe) ==
    nframe.stack_base + (IF nframe.is_ffi THEN 0 ELSE nframe.sig.results)
        + (IF nframe.sig.recv THEN 1 ELSE 0) + nframe.sig.params - 1

\* the stack after an exact packing: everything below the variadic
\* arguments in place, then one slice of exactly those arguments
Packed(stack, nframe) ==
    Append(SubSeq(stack, 1, Below(nframe)),
           slice_with_val(SubSeq(stack, Below(nframe) + 1, Len(stack))))

\* C29: a variadic CALL wraps exactly the arguments of the variadic
\* parameter (possibly none) into one new slice and leaves the return slots,
\* the receiver if the closure has one, and the fixed parameters in place
C29_Pack == [][Packs => objs'.stack = Packed(objs.stack, objs.ops[1])]_vars

\* C29, closures without a receiver: the packing is exact for Go and for
\* FFI calls, at index stack_base + params + results - 1 (Go) and
\* stack_base + params - 1 (FFI)
C29_NoReceiver ==
    [][Packs /\ ~objs.ops[1].sig.recv
         => /\ objs'.stack = Packed(objs.stack, objs.ops[1])
            /\ objs'.ops[2].index = Below(objs.ops[1])]_vars

\* C29, the index the claim gives for FFI calls: stack_base + param_count
C29_FfiIndex ==
    [][Packs /\ objs.ops[1].is_ffi
         => objs'.ops[2].index = objs.ops[1].stack_base + objs.ops[1].sig.params]_vars
\* fiber f loads the captured x through the getter in this step
Gets(f) ==
    /\ entry = F_E_SH /\ Executes(f, "LOAD_UPVALUE")
    /\ func(Last(fibers[f].frames)) = F_GET

\* the value of x as the setter closures hold it: what the last
\* STORE_UPVALUE through a setter left in its cell
SetterValues(f) ==
    {value(f, fibers[f], closures[c].uvs[1]) :
        c \in {d \in DOMAIN closures : closures[d].func = F_SET}}

\* the frame of F_SH, the function that made the two closures, is on the
\* stack of fiber f
MakerLive(f) == \E j \in DOMAIN fibers[f].frames : func(fibers[f].frames[j]) = F_SH

\* C30: two closures made in one activation over the same local share the
\* variable for their whole life: a LOAD_UPVALUE through one gives what the
\* last STORE_UPVALUE through the other stored, also after the defining
\* frame is popped
C30_Shared ==
    [][\A f \in FiberIds :
          Gets(f) => \A v \in SetterValues(f) : Last(fibers'[f].stack) = v]_vars

\* C30, while the defining frame is live: both cells point at the one stack
\* slot and the getter sees what the setter stored
C30_WhileLive ==
    [][\A f \in FiberIds :
          Gets(f) /\ MakerLive(f)
             => /\ SetterValues(f) # {}
                /\ \A v \in SetterValues(f) : Last(fibers'[f].stack) = v]_vars
\* fiber f returns in this step from a default-style call made by a frame
\* that runs as a deferred call
ReturnsToDeferred(f) ==
    /\ Pops(f) /\ Len(fibers[f].frames) >= 2
    /\ ~TopFrame(f).is_deferred
    /\ fibers[f].frames[Len(fibers[f].frames) - 1].is_deferred

\* the frame that fiber f resumes in this step stands where it stood: at the
\* instruction after its CALL
ResumesAfterCall(f) ==
    LET n == Len(fibers[f].frames) - 1
    IN /\ Len(fibers'[f].frames) = n
       /\ fibers'[f].frames[n].pc = fibers[f].frames[n].pc

\* C31: while a panic is pending, a deferred function that calls a function
\* G resumes, when G returns, at the instruction following the CALL
C31_Resume ==
    [][\A f \in FiberIds :
          ReturnsToDeferred(f) /\ Fetched(f).panic.set => ResumesAfterCall(f)]_vars

\* C31, the RECOVER placed after the nested call: when F_E_DC is over, the
\* RECOVER of F_DR has been executed
C31_Recovers ==
    entry = F_E_DC /\ fibers[1].status = "done" => fibers[1].recover_log # << >>
\* fiber f pops, with no panic pending, a frame that a default-style CALL
\* entered
ReturnsFromCall(f) ==
    /\ Pops(f) /\ Len(fibers[f].frames) >= 2
    /\ ~TopFrame(f).is_deferred
    /\ ~Fetched(f).panic.set

\* after the pop the stack ends with the result slots of the popped frame
OnlyResults(f) ==
    Len(fibers'[f].stack) = TopFrame(f).stack_base + Func(func(TopFrame(f))).ret_count

\* C32: after RETURN popped a frame entered by a default-style CALL the
\* stack's length is the frame's stack_base plus the number of its result
\* slots, after a normal return and after a recovered panic alike
C32_Popped == [][\A f \in FiberIds : ReturnsFromCall(f) => OnlyResults(f)]_vars
\* C32, normal returns: in a fiber that has recovered no panic every such
\* pop leaves exactly the result slots
C32_Normal ==
    [][\A f \in FiberIds :
          ReturnsFromCall(f) /\ (\A i \in DOMAIN fibers[f].recover_log :
                                    fibers[f].recover_log[i] = NilV)
             => OnlyResults(f)]_vars
\* the Open cells registered in frame fr
OpenIn(fr) ==
    {upvalues[fr.referred_by[i].uv] : i \in DOMAIN fr.referred_by}
       \cap {d \in Range(upvalues) : d.state = "Open"}

\* every Open cell registered in frame fr, a frame of fiber g, designates
\* g's stack and has the stack_base of fr
OnOwnStack(g, fr) ==
    \A d \in OpenIn(fr) : d.stack = g /\ d.stack_base = fr.stack_base

\* C33: every Open upvalue registered in a frame designates the stack of
\* the fiber the frame executes on and has the frame's stack_base, whatever
\* the call style that entered the frame
C33_Registered ==
    \A g \in FiberIds : \A j \in DOMAIN fibers[g].frames :
       OnOwnStack(g, fibers[g].frames[j])

\* C33, default and deferred calls: it holds of every frame but the first
\* frame of a goroutine, and of the frames that wait in a defer_stack
C33_CallDefer ==
    \A g \in FiberIds :
       /\ \A j \in DOMAIN fibers[g].frames :
             j >= 2 \/ fibers[g].parent = 0 => OnOwnStack(g, fibers[g].frames[j])
       /\ \A fr \in AllFrames(g) \ Range(fibers[g].frames) : OnOwnStack(g, fr)
\* the frame that the CALL of fiber f consumes was staged by a PRE_CALL of
\* the frame that executes the CALL
OwnFrame(f) == Last(fibers[f].next_frames).height = Len(fibers[f].frames)

\* C34: every CALL consumes from next_frames the frame that its own
\* matching PRE_CALL staged, also after a function called in between staged
\* a frame, panicked before its CALL and recovered
C34_Matching == [][\A f \in FiberIds : Executes(f, "CALL") => OwnFrame(f)]_vars

\* C34, calls nested in argument position: as long as the fiber has
\* recovered no panic, every CALL consumes a frame of its own
C34_Nested ==
    [][\A f \in FiberIds :
          Executes(f, "CALL") /\ (\A i \in DOMAIN fibers[f].recover_log :
                                     fibers[f].recover_log[i] = NilV)
             => OwnFrame(f)]_vars
\* the slice object s lies within its backing vector
InBounds(s) ==
    s.begin <= s.end /\ s.end <= s.cap_end /\ s.cap_end <= Len(objs.vecs[s.vec])

\* C35: every slice made by MAKE, LITERAL, slicing of a slice or of an
\* array, and APPEND satisfies begin <= end <= cap_end <= length of its
\* backing vector
C35_Bounds ==
    objs.kind = "backing" => \A k \in DOMAIN objs.slices : InBounds(objs.slices[k].obj)

\* C35, the backing vector: a slicing, of a slice or of an array, changes
\* neither the length nor the contents of a vector that exists
C35_Slicing ==
    [][objs.kind = "backing" /\ Len(objs'.slices) > Len(objs.slices)
         /\ (\/ Last(objs'.slices).made.src # 0
             \/ \E len \in 0..MaxCap : \E begin \in 0..MaxCap : \E end \in -1..MaxCap :
                   SliceArray(len, begin, end))
         => \A v \in DOMAIN objs.vecs : objs'.vecs[v] = objs.vecs[v]]_vars
\* the pointer values among the keys of ObjSpec
Pointers == {k \in Range(objs.keys) : k.t = "ptr"}

\* the pointers a and b designate the same variable: the same upvalue cell
\* or the same struct object
SameVariable(a, b) ==
    /\ objs.ptrs[a.n].variant = objs.ptrs[b.n].variant
    /\ objs.ptrs[a.n].to = objs.ptrs[b.n].to

\* C36: two pointers compare equal if and only if they designate the same
\* variable; pointers from two NEW or REF_LITERAL executions are unequal
\* even when their pointees hold equal values
C36_Identity ==
    \A a \in Pointers : \A b \in Pointers : GosValue_eq(a, b) <=> SameVariable(a, b)

\* C36, one direction: pointers to the same variable, copies of one pointer
\* among them, compare equal
C36_Copies ==
    \A a \in Pointers : \A b \in Pointers : SameVariable(a, b) => GosValue_eq(a, b)
\* a SLICE_FULL raises "index out of range" in this step: max exceeds the
\* capacity of the operand
FullSlicePanics ==
    /\ objs.kind = "oob" /\ objs.ops = << >> /\ objs'.ops # << >>
    /\ objs'.ops[1].op = "SLICE" /\ objs'.ops[1].outcome = "go_panic"

\* C37: a SLICE_FULL that raises the panic has no other effect: no result
\* slice is made and pushed, and the backing vector of the operand is
\* unchanged
C37_NoEffect ==
    [][FullSlicePanics => objs'.slices = objs.slices /\ objs'.vecs = objs.vecs]_vars

\* C37, the operand: the slice object sliced and the elements its vector
\* had are unchanged by the SLICE_FULL that panics
C37_Operand ==
    [][FullSlicePanics =>
          /\ SubSeq(objs'.slices, 1, Len(objs.slices)) = objs.slices
          /\ \A v \in DOMAIN objs.vecs :
                SubSeq(objs'.vecs[v], 1, Len(objs.vecs[v])) = objs.vecs[v]]_vars

\* the constant added at index i, as a value
AddedAt(i) ==
    LET c == objs.consts[i + 1]
    IN IF c.c = "Var" THEN c.v ELSE new_function(c.m, c.index)

\* the ConstType of a value
ConstType(val) ==
    IF is_nil(val) THEN "Nil" ELSE IF copyable(typ(val)) THEN "Copyable" ELSE "Other"

\* get_runtime_consts has returned, for the constants 0 .. added - 1
Returned == objs.kind = "consts" /\ objs.runtime.some

\* C38: get_runtime_consts returns (consts, map) with map defined for every
\* index returned by add_const / add_method so far and consts[map[i]] of the
\* type and value of the constant added at i; nil constants are stored once
\* per type, copyable ones once per (type, value), non-copyable ones are
\* never merged, and the vector is ordered nils, copyables, others
C38_Runtime ==
    Returned =>
       LET r == objs.runtime
           Added == 0 .. r.added - 1
           At(k) == r.consts[k + 1]
           Slots == 0 .. Len(r.consts) - 1
       IN /\ \A i \in Added :
                /\ i \in DOMAIN r.map
                /\ r.map[i] \in Slots
                /\ At(r.map[i]) = AddedAt(i)
          /\ \A k \in Slots : \E i \in Added : r.map[i] = k
          /\ \A k \in Slots : \A l \in Slots :
                k # l =>
                   /\ ConstType(At(k)) = "Nil" /\ ConstType(At(l)) = "Nil"
                         => typ(At(k)) # typ(At(l))
                   /\ ConstType(At(k)) = "Copyable" /\ ConstType(At(l)) = "Copyable"
                         => typ(At(k)) # typ(At(l)) \/ At(k).data # At(l).data
          /\ \A i \in Added : \A j \in Added :
                i # j /\ ConstType(AddedAt(i)) = "Other" => r.map[i] # r.map[j]
          /\ \A i \in Added : \A j \in Added :
                /\ ConstType(AddedAt(i)) = ConstType(AddedAt(j))
                /\ ConstType(AddedAt(i)) # "Other"
                /\ typ(AddedAt(i)) = typ(AddedAt(j))
                /\ AddedAt(i).data = AddedAt(j).data
                => r.map[i] = r.map[j]
          /\ \A k \in Slots : \A l \in Slots :
                k < l =>
                   /\ ConstType(At(l)) = "Nil" => ConstType(At(k)) = "Nil"
                   /\ ConstType(At(l)) = "Copyable" => ConstType(At(k)) # "Other"

\* C38 is exercised: the vector was returned for an int constant, an equal
\* constant of another integer type and the int constant again
C38_Merged ==
    /\ Returned
    /\ objs.runtime.added = 3
    /\ AddedAt(0) = GosConst("int", FALSE, 1)
    /\ AddedAt(1) = GosConst("int8", FALSE, 1)
    /\ AddedAt(2) = GosConst("int", FALSE, 1)
    /\ Len(objs.runtime.consts) = 2
====
